---- MODULE Spec2Model ----
(***************************************************************************)
(* State-machine model of the firebase-autoform web component              *)
(* (packages/firebase-autoform/src/firebase-autoform.js): the value store, *)
(* the error store, field and whole-form validation, and the asynchronous  *)
(* submit handler with its suspension points; and of the asynchronous      *)
(* parts of firebase-crud, firebase-uploadfile and firebase-wrapper, each  *)
(* in a specification of its own.                                          *)
(***************************************************************************)
EXTENDS Integers, Sequences, FiniteSets, TLC

VARIABLES
    schema,               \* this.schema: ordered field entries
    data,                 \* this.data: existing record, or NoData
    path,                 \* this.path
    dataKey,              \* this.dataKey
    showSuccess,          \* this.showSuccess
    resetOnSubmit,        \* this.resetOnSubmit
    _database,            \* this._database: handle present or not
    _values,              \* this._values  (ValueStore)
    _errors,              \* this._errors  (ErrorStore)
    _loading,             \* this._loading
    _globalError,         \* this._globalError
    _showSuccessMessage,  \* this._showSuccessMessage
    subs,                 \* one frame per run of _handleSubmit, in order of start
    resetEvents,          \* events dispatched by clicks on the reset button
    timers,               \* pending banner-dismissal timers (ids of submissions),
                          \* in the order of their setTimeout calls
    nextKey,              \* number of keys push() has generated so far
    interactions,         \* user and caller interactions handled so far
    changedProperties,    \* schema / data assigned since the last updated() callback
    uncaught,             \* exceptions that escaped a handler so far
    crud,                 \* a firebase-crud element (packages/firebase-crud)
    uploader,             \* a firebase-uploadfile element (packages/firebase-uploadfile)
    wrapper               \* a firebase-wrapper element (packages/firebase-wrapper)

vars == <<schema, data, path, dataKey, showSuccess, resetOnSubmit, _database,
          _values, _errors, _loading, _globalError, _showSuccessMessage,
          subs, resetEvents, timers, nextKey, interactions, changedProperties,
          uncaught, crud, uploader, wrapper>>

config == <<schema, data, path, showSuccess, resetOnSubmit>>

\* the elements of the other components: no handler of the form touches them
siblings == <<crud, uploader, wrapper>>

\* the state of the form: no handler of another component touches it
formState == <<schema, data, path, dataKey, showSuccess, resetOnSubmit, _database,
          _values, _errors, _loading, _globalError, _showSuccessMessage,
          subs, resetEvents, timers, nextKey, interactions, changedProperties,
          uncaught>>

-----------------------------------------------------------------------------
(* Bounds of the exploration *)

MaxSubmits == 2        \* submit events handled in one behaviour
\* other interactions in one behaviour: input events, clicks on the reset
\* button and assignments of dataKey
MaxInteractions == 1
\* interactions in one behaviour of the value-store specification: input
\* events, clicks on the reset button, assignments of schema and data
MaxStoreSteps == 3

-----------------------------------------------------------------------------
(* JavaScript values.  Every value is a record of the same shape so that   *)
(* values of different JavaScript types can be compared.                   *)
(* A string is the sequence of its characters.                             *)

Undefined == [k |-> "undefined", s |-> <<>>, n |-> 0]
Null == [k |-> "null", s |-> <<>>, n |-> 0]
NaN == [k |-> "NaN", s |-> <<>>, n |-> 0]
Str(chars) == [k |-> "string", s |-> chars, n |-> 0]
Num(i) == [k |-> "number", s |-> <<>>, n |-> i]
Bool(b) == [k |-> "boolean", s |-> <<>>, n |-> IF b THEN 1 ELSE 0]
EmptyString == Str(<<>>)

\* ToBoolean: what `value && ...` tests
Truthy(v) ==
    CASE v.k = "string" -> Len(v.s) > 0
      [] v.k = "number" -> v.n # 0
      [] v.k = "boolean" -> v.n = 1
      [] OTHER -> FALSE

Digits == <<"0", "1", "2", "3", "4", "5", "6", "7", "8", "9">>
IsDigit(c) == \E d \in 1..10 : Digits[d] = c
DigitVal(c) == (CHOOSE d \in 1..10 : Digits[d] = c) - 1
IsSpace(c) == c = " "

RECURSIVE NatToChars(_)
NatToChars(i) ==
    IF i < 10 THEN <<Digits[i + 1]>>
    ELSE NatToChars(i \div 10) \o <<Digits[(i % 10) + 1]>>

\* ToString(value), as RegExp.prototype.test applies it to its argument
JsToString(v) ==
    CASE v.k = "string" -> v.s
      [] v.k = "number" -> IF v.n < 0 THEN <<"-">> \o NatToChars(0 - v.n)
                           ELSE NatToChars(v.n)
      [] v.k = "boolean" -> IF v.n = 1 THEN <<"t", "r", "u", "e">>
                            ELSE <<"f", "a", "l", "s", "e">>
      [] v.k = "null" -> <<"n", "u", "l", "l">>
      [] v.k = "NaN" -> <<"N", "a", "N">>
      [] OTHER -> <<"u", "n", "d", "e", "f", "i", "n", "e", "d">>

RECURSIVE TrimLeft(_)
TrimLeft(s) == IF Len(s) > 0 /\ IsSpace(Head(s)) THEN TrimLeft(Tail(s)) ELSE s
RECURSIVE TrimRight(_)
TrimRight(s) ==
    IF Len(s) > 0 /\ IsSpace(s[Len(s)]) THEN TrimRight(SubSeq(s, 1, Len(s) - 1))
    ELSE s

RECURSIVE DecimalValue(_)
DecimalValue(s) ==
    IF Len(s) = 0 THEN 0
    ELSE 10 * DecimalValue(SubSeq(s, 1, Len(s) - 1)) + DigitVal(s[Len(s)])

\* StringToNumber on strings of letters, digits, blanks, "@" and "-": blank
\* strings are 0, digit strings their decimal value, anything else NaN
StringToNumber(s) ==
    LET t == TrimRight(TrimLeft(s)) IN
    IF Len(t) = 0 THEN Num(0)
    ELSE IF \A i \in 1..Len(t) : IsDigit(t[i]) THEN Num(DecimalValue(t))
    ELSE NaN

\* ToNumber, as the relational operators apply it when one side is a number
ToNumber(v) ==
    CASE v.k = "string" -> StringToNumber(v.s)
      [] v.k = "number" -> v
      [] v.k = "boolean" -> Num(v.n)
      [] v.k = "null" -> Num(0)
      [] OTHER -> NaN

\* value < bound and value > bound with a numeric bound: false on NaN
JsLess(v, bound) == LET x == ToNumber(v) IN x.k = "number" /\ x.n < bound
JsGreater(v, bound) == LET x == ToNumber(v) IN x.k = "number" /\ x.n > bound

\* value.length throws a TypeError on null and undefined
HasNoProperties(v) == v.k \in {"null", "undefined"}
\* value.length < bound / value.length > bound: the length of a number or a
\* boolean is undefined, and undefined compares false
LengthLessOrEqual(v, bound) == v.k = "string" /\ Len(v.s) <= bound   \* variant: <=
LengthLess(v, bound) == v.k = "string" /\ Len(v.s) < bound
LengthGreater(v, bound) == v.k = "string" /\ Len(v.s) > bound

-----------------------------------------------------------------------------
(* Regular expressions *)

\* one or more characters, none of them whitespace or "@":  [^\s@]+
NoSpaceNoAt(s) == Len(s) > 0 /\ \A i \in 1..Len(s) : ~IsSpace(s[i]) /\ s[i] # "@"

\* /^[^\s@]+@[^\s@]+\.[^\s@]+$/.test(email)
_isValidEmail(email) ==
    \E i \in 1..Len(email), j \in 1..Len(email) :
        /\ i < j
        /\ email[i] = "@"
        /\ email[j] = "."
        /\ NoSpaceNoAt(SubSeq(email, 1, i - 1))
        /\ NoSpaceNoAt(SubSeq(email, i + 1, j - 1))
        /\ NoSpaceNoAt(SubSeq(email, j + 1, Len(email)))

NoPattern == ""
PatternDigits == "^[0-9]+$"
PatternUnclosed == "["        \* new RegExp("[") throws a SyntaxError

RegExpCompiles(pattern) == pattern # PatternUnclosed
\* new RegExp(pattern).test(s) for the patterns above
RegExpTest(pattern, s) ==
    CASE pattern = PatternDigits -> Len(s) > 0 /\ \A i \in 1..Len(s) : IsDigit(s[i])
      [] OTHER -> FALSE

-----------------------------------------------------------------------------
(* Field schemas.  An absent minLength / maxLength is 0 (the code tests     *)
(* them for truthiness), an absent pattern or group is "".                  *)

Field(name, type, required) ==
    [name |-> name, type |-> type, required |-> required,
     hasDefault |-> FALSE, default |-> Undefined,
     minLength |-> 0, maxLength |-> 0,
     hasMin |-> FALSE, min |-> 0, hasMax |-> FALSE, max |-> 0,
     pattern |-> NoPattern, group |-> ""]

FieldNames(sch) == {sch[i].name : i \in 1..Len(sch)}
\* this.schema[fieldName]
SchemaField(sch, fieldName) ==
    sch[CHOOSE i \in 1..Len(sch) : sch[i].name = fieldName]

-----------------------------------------------------------------------------
(* Validation messages *)

NoMessage == [text |-> "", n |-> 0]
MsgRequired == [text |-> "This field is required", n |-> 0]
MsgEmail == [text |-> "Please enter a valid email", n |-> 0]
MsgMinLength(n) == [text |-> "Minimum ${field.minLength} characters required", n |-> n]
MsgMaxLength(n) == [text |-> "Maximum ${field.maxLength} characters allowed", n |-> n]
MsgMin(n) == [text |-> "Minimum value is ${field.min}", n |-> n]
MsgMax(n) == [text |-> "Maximum value is ${field.max}", n |-> n]
MsgPattern == [text |-> "Invalid format", n |-> 0]

Verdict(msg) == [threw |-> FALSE, msg |-> msg]
Throws == [threw |-> TRUE, msg |-> NoMessage]


-----------------------------------------------------------------------------
(* Objects: functions from a set of keys *)

EmptyObject == [key \in {} |-> Undefined]
NoErrors == [key \in {} |-> NoMessage]
\* { ...obj, [key]: value }
With(obj, key, value) ==
    [x \in DOMAIN obj \cup {key} |-> IF x = key THEN value ELSE obj[x]]
\* delete obj[key]
Without(obj, key) == [x \in DOMAIN obj \ {key} |-> obj[x]]
\* obj[key]: undefined when the key is absent
Get(obj, key) == IF key \in DOMAIN obj THEN obj[key] ELSE Undefined

-----------------------------------------------------------------------------
(* Validation engine *)

\* variant: the length rules are tested before the email rule
FieldRuleLengthFirst(field, value) ==
    IF field.required /\ (value = EmptyString \/ value = Null \/ value = Undefined)
    THEN Verdict(MsgRequired)
    ELSE IF field.minLength # 0 /\ HasNoProperties(value)
    THEN Throws
    ELSE IF field.minLength # 0 /\ LengthLess(value, field.minLength)
    THEN Verdict(MsgMinLength(field.minLength))
    ELSE IF field.maxLength # 0 /\ LengthGreater(value, field.maxLength)
    THEN Verdict(MsgMaxLength(field.maxLength))
    ELSE IF field.type = "email" /\ Truthy(value) /\ ~_isValidEmail(JsToString(value))
    THEN Verdict(MsgEmail)
    ELSE IF field.hasMin /\ JsLess(value, field.min)
    THEN Verdict(MsgMin(field.min))
    ELSE IF field.hasMax /\ JsGreater(value, field.max)
    THEN Verdict(MsgMax(field.max))
    ELSE IF field.pattern # NoPattern /\ Truthy(value) /\ ~RegExpCompiles(field.pattern)
    THEN Throws
    ELSE IF /\ field.pattern # NoPattern
            /\ Truthy(value)
            /\ ~RegExpTest(field.pattern, JsToString(value))
    THEN Verdict(MsgPattern)
    ELSE Verdict(NoMessage)

\* the if / else-if chain of _validateField: the message of the first rule
\* whose condition holds, none, or the exception an evaluation raises
FieldRule(field, value) ==
    IF field.required /\ (value = EmptyString \/ value = Null \/ value = Undefined)
    THEN Verdict(MsgRequired)
    ELSE IF field.type = "email" /\ Truthy(value) /\ ~_isValidEmail(JsToString(value))
    THEN Verdict(MsgEmail)
    ELSE IF field.minLength # 0 /\ HasNoProperties(value)
    THEN Throws
    ELSE IF field.minLength # 0 /\ LengthLess(value, field.minLength)
    THEN Verdict(MsgMinLength(field.minLength))
    ELSE IF field.maxLength # 0 /\ HasNoProperties(value)
    THEN Throws
    ELSE IF field.maxLength # 0 /\ LengthGreater(value, field.maxLength)
    THEN Verdict(MsgMaxLength(field.maxLength))
    ELSE IF field.hasMin /\ JsLess(value, field.min)
    THEN Verdict(MsgMin(field.min))
    ELSE IF field.hasMax /\ JsGreater(value, field.max)
    THEN Verdict(MsgMax(field.max))
    ELSE IF field.pattern # NoPattern /\ Truthy(value) /\ ~RegExpCompiles(field.pattern)
    THEN Throws
    ELSE IF /\ field.pattern # NoPattern
            /\ Truthy(value)
            /\ ~RegExpTest(field.pattern, JsToString(value))
    THEN Verdict(MsgPattern)
    ELSE Verdict(NoMessage)

\* _validateField(fieldName, value) on the error store `errors`: the new error
\* store, or the old one when the rule evaluation threw before the assignment
_validateField(errors, sch, fieldName, value) ==
    LET verdict == FieldRule(SchemaField(sch, fieldName), value)
        cleared == Without(errors, fieldName)
    IN  IF verdict.threw THEN [threw |-> TRUE, errors |-> errors]
        ELSE IF verdict.msg # NoMessage
        THEN [threw |-> FALSE, errors |-> With(cleared, fieldName, verdict.msg)]
        ELSE [threw |-> FALSE, errors |-> cleared]

\* the forEach of _validateForm from entry i on; an exception ends the loop
RECURSIVE ValidateFrom(_, _, _, _)
ValidateFrom(errors, sch, values, i) ==
    IF i > Len(sch) THEN [threw |-> FALSE, errors |-> errors]
    ELSE LET r == _validateField(errors, sch, sch[i].name, Get(values, sch[i].name))
         IN  IF r.threw THEN r ELSE ValidateFrom(r.errors, sch, values, i + 1)

\* _validateForm(): valid iff it did not throw and left no error
_validateForm(errors, sch, values) == ValidateFrom(errors, sch, values, 1)

\* get isValid()
isValid == DOMAIN _errors = {}

-----------------------------------------------------------------------------
(* Value store *)

\* the default-seeding loop of _initializeValues
DefaultValue(field) ==
    IF field.hasDefault /\ field.default # Undefined THEN field.default
    ELSE IF field.type = "checkbox" THEN Bool(FALSE)
    ELSE EmptyString

\* variant: every key of the record is copied
_initializeValuesAllKeys(sch, record) ==
    [name \in FieldNames(sch) \cup DOMAIN record |->
        IF name \in DOMAIN record THEN record[name]
        ELSE DefaultValue(SchemaField(sch, name))]

\* _initializeValues(): defaults, overridden by the record's keys that are in
\* the schema
_initializeValues(sch, record) ==
    [name \in FieldNames(sch) |->
        IF name \in DOMAIN record THEN record[name]
        ELSE DefaultValue(SchemaField(sch, name))]

\* variant: `Number(e.target.value)` without the test for a blank input
InputValueNumber(field, target) ==
    IF field.type = "checkbox" THEN Bool(target.checked)
    ELSE IF field.type \in {"number", "range"} THEN StringToNumber(target.value)
    ELSE Str(target.value)

\* the value _handleInput extracts from the event target
InputValue(field, target) ==
    IF field.type = "checkbox" THEN Bool(target.checked)
    ELSE IF field.type \in {"number", "range"}
    THEN IF target.value = <<>> THEN EmptyString ELSE StringToNumber(target.value)
    ELSE Str(target.value)


-----------------------------------------------------------------------------
(* Submission coordinator *)

NoPath == ""
NoKey == <<>>
\* the key the n-th push() of this element generates
PushKey(n) == <<"-", "N">> \o NatToChars(n)
\* Date.now(): the claims do not depend on the clock
DateNow == Num(1700)

Event(type) ==
    [type |-> type, data |-> EmptyObject, key |-> NoKey, path |-> NoPath, message |-> ""]

\* the state a handler run reads and writes, threaded through its statements;
\* events are the events the run has dispatched
Local(dispatched) ==
    [values |-> _values, errors |-> _errors, loading |-> _loading,
     globalError |-> _globalError, showSuccessMessage |-> _showSuccessMessage,
     dataKey |-> dataKey, timers |-> timers, events |-> dispatched]

\* the assignment of a handler run's final state to the element
Commit(st) ==
    /\ _values' = st.values
    /\ _errors' = st.errors
    /\ _loading' = st.loading
    /\ _globalError' = st.globalError
    /\ _showSuccessMessage' = st.showSuccessMessage
    /\ dataKey' = st.dataKey
    /\ timers' = st.timers

\* variant: only the values are reset
_handleResetValuesOnly(st) ==
    [st EXCEPT !.values = _initializeValues(schema, data),
               !.events = Append(@, Event("form-reset"))]

\* variant: the discarded values are validated a last time
_handleResetValidating(st) ==
    [st EXCEPT !.values = _initializeValues(schema, data),
               !.errors = _validateForm(NoErrors, schema, st.values).errors,
               !.showSuccessMessage = FALSE,
               !.globalError = "",
               !.events = Append(@, Event("form-reset"))]

\* _handleReset()
_handleReset(st) ==
    [st EXCEPT !.values = _initializeValues(schema, data),
               !.errors = NoErrors,
               !.showSuccessMessage = FALSE,
               !.globalError = "",
               !.events = Append(@, Event("form-reset"))]

\* _dispatchSubmit(data): key and path are read when the event is built
_dispatchSubmit(st, submitData) ==
    [st EXCEPT !.events = Append(@, [Event("form-submit") EXCEPT
                                        !.data = submitData,
                                        !.key = st.dataKey,
                                        !.path = path])]

\* _dispatchError(message)
_dispatchError(st, message) ==
    [st EXCEPT !.events = Append(@, [Event("form-error") EXCEPT !.message = message])]

\* variant: `if (value || field.required)`
IncludedKeysTruthy(sch, values) ==
    {key \in DOMAIN values : Truthy(values[key]) \/ SchemaField(sch, key).required}

\* the keys the forEach of _handleSubmit copies into submitData
IncludedKeys(sch, values) ==
    {key \in DOMAIN values :
        values[key] # EmptyString \/ SchemaField(sch, key).required}

\* the forEach reads field.required of a key that is not in the schema
PayloadThrows(sch, values) ==
    \E key \in DOMAIN values : values[key] = EmptyString /\ key \notin FieldNames(sch)

\* submitData after `submitData._updatedAt = Date.now()`
SubmitData(sch, values) ==
    [key \in IncludedKeys(sch, values) \cup {"_updatedAt"} |->
        IF key = "_updatedAt" THEN DateNow ELSE values[key]]

\* this._database && this.path
UsesBackend == _database /\ path # NoPath

\* the success banner and its dismissal timer
ShowSuccess(st, id) ==
    IF showSuccess
    THEN [st EXCEPT !.showSuccessMessage = TRUE, !.timers = Append(@, id)]
    ELSE st

\* variant: the post-actions are skipped
NotifyOnly(st, id, submitData) == _dispatchSubmit(st, submitData)

\* variant: the reset runs before the event is dispatched
NotifyAfterReset(st, id, submitData) ==
    LET shown == ShowSuccess(st, id)
    IN  _dispatchSubmit(IF resetOnSubmit THEN _handleReset(shown) ELSE shown, submitData)

\* variant: the event carries the values the store holds when it is dispatched
NotifyCurrentValues(st, id, submitData) ==
    LET shown == ShowSuccess(_dispatchSubmit(st, SubmitData(schema, st.values)), id)
    IN  IF resetOnSubmit THEN _handleReset(shown) ELSE shown

\* the statements after the persistence block: notify, then the post-actions
Notify(st, id, submitData) ==
    LET shown == ShowSuccess(_dispatchSubmit(st, submitData), id)
    IN  IF resetOnSubmit THEN _handleReset(shown) ELSE shown

\* variant: the failure is shown but not announced
CatchSilently(st, message) == [st EXCEPT !.globalError = message]

\* variant: the form is cleared when the submission fails
CatchAndClear(st, message) ==
    _dispatchError([st EXCEPT !.globalError = message,
                              !.values = _initializeValues(schema, data)], message)

\* the catch block
Catch(st, message) == _dispatchError([st EXCEPT !.globalError = message], message)

\* the finally block
Finally(st) == [st EXCEPT !.loading = FALSE]

\* the frame of one run of _handleSubmit: where it stands, the dataKey it
\* started with, its submitData, the persistence calls it made and the events
\* it dispatched
Frame(state, submitData, dispatched) ==
    [state |-> state, startKey |-> dataKey, submitData |-> submitData,
     calls |-> <<>>, events |-> dispatched]

\* the statements of _handleSubmit from `this._loading = true` to the first
\* await, or to the end of the handler when it does not await
Submit(st0, id) ==
    LET st1 == [st0 EXCEPT !.loading = TRUE, !.globalError = "",
                           !.showSuccessMessage = FALSE]
        submitData == SubmitData(schema, st0.values)
    IN  IF PayloadThrows(schema, st0.values)
        THEN [st |-> Finally(Catch(st1, "TypeError")), state |-> "rejected-exception",
              submitData |-> EmptyObject]
        ELSE IF UsesBackend
        THEN [st |-> st1, state |-> "importing", submitData |-> submitData]
        ELSE [st |-> Finally(Notify(st1, id, submitData)), state |-> "accepted",
              submitData |-> submitData]

\* variant: the early return is missing
RejectsNever(checked) == FALSE

\* `if (!this._validateForm()) return`
Rejects(checked) == DOMAIN checked.errors # {}

\* _handleSubmit(e) up to its first await, or to its end when it has none
HandleSubmit ==
    /\ Len(subs) < MaxSubmits
    /\ LET id == Len(subs) + 1
           checked == _validateForm(_errors, schema, _values)
           st0 == [Local(<<>>) EXCEPT !.errors = checked.errors]
           run == Submit(st0, id)
       IN  IF checked.threw
           THEN /\ Commit(st0)
                /\ subs' = Append(subs, Frame("threw", EmptyObject, <<>>))
                /\ uncaught' = uncaught + 1
           ELSE IF Rejects(checked)
           THEN /\ Commit(st0)
                /\ subs' = Append(subs, Frame("rejected-validation", EmptyObject, <<>>))
                /\ UNCHANGED uncaught
           ELSE /\ Commit(run.st)
                /\ subs' = Append(subs, Frame(run.state, run.submitData, run.st.events))
                /\ UNCHANGED uncaught
    /\ UNCHANGED <<siblings, config, changedProperties, _database, resetEvents, nextKey, interactions>>

\* variant: _createdAt is stamped before the branch on dataKey
PersistenceCallStamped(submitData) ==
    IF dataKey # NoKey
    THEN [op |-> "update", path |-> path, key |-> dataKey,
          data |-> With(submitData, "_createdAt", DateNow)]
    ELSE [op |-> "set", path |-> path, key |-> PushKey(nextKey + 1),
          data |-> With(submitData, "_createdAt", DateNow)]

\* the persistence call the handler makes after `await import(...)`: update()
\* at path/dataKey, or set() at a freshly pushed reference
PersistenceCall(submitData) ==
    IF dataKey # NoKey
    THEN [op |-> "update", path |-> path, key |-> dataKey, data |-> submitData]
    ELSE [op |-> "set", path |-> path, key |-> PushKey(nextKey + 1),
          data |-> With(submitData, "_createdAt", DateNow)]

\* the handler resumes after `await import('firebase/database')`, makes its
\* persistence call and awaits it
ImportResolved(id) ==
    /\ id \in 1..Len(subs)
    /\ subs[id].state = "importing"
    /\ LET call == PersistenceCall(subs[id].submitData)
       IN  /\ subs' = [subs EXCEPT ![id] =
                          [@ EXCEPT !.state = "persisting",
                                    !.submitData = call.data,
                                    !.calls = Append(@, call)]]
           /\ nextKey' = IF call.op = "set" THEN nextKey + 1 ELSE nextKey
    /\ UNCHANGED <<siblings, config, changedProperties, dataKey, _database, _values, _errors, _loading, _globalError,
                   _showSuccessMessage, resetEvents, timers, interactions, uncaught>>

\* the statement between the awaited call and _dispatchSubmit:
\* `this.dataKey = newRef.key` on the create branch
Resolved(st, call) ==
    IF call.op = "set" THEN [st EXCEPT !.dataKey = call.key] ELSE st

\* the awaited update() / set() resolves: the rest of the try block, finally
PersistResolved(id) ==
    /\ id \in 1..Len(subs)
    /\ subs[id].state = "persisting"
    /\ LET f == subs[id]
           call == f.calls[Len(f.calls)]
           st == Finally(Notify(Resolved(Local(f.events), call), id, f.submitData))
       IN  /\ Commit(st)
           /\ subs' = [subs EXCEPT ![id] =
                          [f EXCEPT !.state = "accepted", !.events = st.events]]
    /\ UNCHANGED <<siblings, config, changedProperties, _database, resetEvents, nextKey, interactions, uncaught>>

PersistenceErrors == {"PERMISSION_DENIED", "NETWORK_ERROR"}

\* the awaited update() / set() rejects: catch, finally
PersistRejected(id, message) ==
    /\ id \in 1..Len(subs)
    /\ subs[id].state = "persisting"
    /\ LET st == Finally(Catch(Local(subs[id].events), message))
       IN  /\ Commit(st)
           /\ subs' = [subs EXCEPT ![id] =
                          [@ EXCEPT !.state = "rejected-persistence",
                                    !.events = st.events]]
    /\ UNCHANGED <<siblings, config, changedProperties, _database, resetEvents, nextKey, interactions, uncaught>>

-----------------------------------------------------------------------------
(* The other handlers *)

\* _handleInput(e, fieldName): store the extracted value, then validate it
HandleInput(fieldName, target) ==
    /\ fieldName \in FieldNames(schema)
    /\ LET value == InputValue(SchemaField(schema, fieldName), target)
           checked == _validateField(_errors, schema, fieldName, value)
       IN  /\ _values' = With(_values, fieldName, value)
           /\ _errors' = checked.errors
           /\ uncaught' = IF checked.threw THEN uncaught + 1 ELSE uncaught
    /\ interactions' = interactions + 1
    /\ UNCHANGED <<siblings, config, changedProperties, dataKey, _database, _loading, _globalError,
                   _showSuccessMessage, subs, resetEvents, timers, nextKey>>

\* a click on the reset button, which render() disables while _loading
ResetClick ==
    /\ ~_loading
    /\ LET st == _handleReset(Local(resetEvents))
       IN  Commit(st) /\ resetEvents' = st.events
    /\ interactions' = interactions + 1
    /\ UNCHANGED <<siblings, config, changedProperties, _database, subs, nextKey, uncaught>>

\* the submissions whose timer is pending
Pending(ts) == {ts[i] : i \in 1..Len(ts)}

\* the setTimeout callback scheduled by an accepted submission: a task, which
\* runs after the microtask of a scheduled update.  The delays are equal, so
\* the timers fire in the order they were set
TimerFired(id) ==
    /\ timers # <<>>
    /\ id = Head(timers)
    /\ changedProperties = {}
    /\ _showSuccessMessage' = FALSE
    /\ timers' = Tail(timers)
    /\ UNCHANGED <<siblings, config, changedProperties, dataKey, _database, _values, _errors, _loading, _globalError,
                   subs, resetEvents, nextKey, interactions, uncaught>>

\* the caller assigns the dataKey property
SetDataKey(key) ==
    /\ key # dataKey
    /\ dataKey' = key
    /\ interactions' = interactions + 1
    /\ UNCHANGED <<siblings, config, changedProperties, _database, _values, _errors, _loading, _globalError,
                   _showSuccessMessage, subs, resetEvents, timers, nextKey, uncaught>>

\* the firebase-ready listener of _initDatabase, or its getDatabase() fallback
FirebaseReady ==
    /\ ~_database
    /\ _database' = TRUE
    /\ UNCHANGED <<siblings, config, changedProperties, dataKey, _values, _errors, _loading, _globalError,
                   _showSuccessMessage, subs, resetEvents, timers, nextKey,
                   interactions, uncaught>>

\* the host assigns the schema property: Lit records the change and schedules
\* an update, whose updated() callback runs in a later microtask
SetSchema(sch) ==
    /\ sch # schema
    /\ schema' = sch
    /\ changedProperties' = changedProperties \cup {"schema"}
    /\ interactions' = interactions + 1
    /\ UNCHANGED <<siblings, data, path, showSuccess, resetOnSubmit, dataKey, _database, _values,
                   _errors, _loading, _globalError, _showSuccessMessage, subs,
                   resetEvents, timers, nextKey, uncaught>>

\* the host assigns the data property
SetData(record) ==
    /\ record # data
    /\ data' = record
    /\ changedProperties' = changedProperties \cup {"data"}
    /\ interactions' = interactions + 1
    /\ UNCHANGED <<siblings, schema, path, showSuccess, resetOnSubmit, dataKey, _database, _values,
                   _errors, _loading, _globalError, _showSuccessMessage, subs,
                   resetEvents, timers, nextKey, uncaught>>

\* updated(changedProperties) of the scheduled update: _initializeValues()
Updated ==
    /\ changedProperties # {}
    /\ _values' = _initializeValues(schema, data)
    /\ _errors' = NoErrors
    /\ changedProperties' = {}
    /\ UNCHANGED <<siblings, config, dataKey, _database, _loading, _globalError,
                   _showSuccessMessage, subs, resetEvents, timers, nextKey,
                   interactions, uncaught>>

-----------------------------------------------------------------------------
(* Sample schemas, records and inputs *)

Chars(word) ==
    CASE word = "Ada" -> <<"A", "d", "a">>
      [] word = "Adam" -> <<"A", "d", "a", "m">>
      [] word = "a@b.co" -> <<"a", "@", "b", ".", "c", "o">>
      [] word = "a@b" -> <<"a", "@", "b">>
      [] word = "0" -> <<"0">>
      [] word = "7" -> <<"7">>
      [] word = "u1" -> <<"u", "1">>
      [] OTHER -> <<>>

\* the schema of the test 'dispatches form-submit with data'
SchemaContact == <<Field("name", "text", TRUE), Field("email", "email", TRUE)>>
\* optional fields of three kinds
SchemaProfile ==
    <<[Field("nick", "text", FALSE) EXCEPT !.maxLength = 3],
      Field("active", "checkbox", FALSE),
      [Field("age", "number", FALSE) EXCEPT !.hasMin = TRUE, !.min = 0,
                                            !.hasMax = TRUE, !.max = 5]>>

NoData == EmptyObject
RecordAda == [key \in {"name", "uid"} |->
                 IF key = "name" THEN Str(Chars("Ada")) ELSE Str(Chars("u1"))]

Forms == {<<SchemaContact, RecordAda>>, <<SchemaProfile, NoData>>}

Target(text, checked) == [value |-> Chars(text), checked |-> checked]

\* what a user enters in the control rendered for the field
TargetsOf(field) ==
    CASE field.type = "checkbox" -> {Target("", TRUE), Target("", FALSE)}
      [] field.type \in {"number", "range"} -> {Target("0", FALSE), Target("7", FALSE)}
      [] field.type = "email" -> {Target("a@b.co", FALSE), Target("a@b", FALSE)}
      [] OTHER -> {Target("", FALSE), Target("Adam", FALSE)}

CallerKeys == {NoKey, Chars("u1")}

-----------------------------------------------------------------------------
(* The other components of the page, each after its constructor, not yet    *)
(* connected.  Their handlers are modelled further below.                   *)

\* firebase-crud: packages/firebase-crud/src/firebase-crud.js
CrudConstructed ==
    [path |-> "",               \* this.path
     autoSync |-> FALSE,        \* this.autoSync
     _database |-> FALSE,       \* this._database: handle present or not
     _data |-> "null",          \* this._data
     _loading |-> FALSE,        \* this._loading
     _error |-> "",             \* this._error
     _syncActive |-> FALSE,     \* this._syncActive
     _unsubscribe |-> 0,        \* this._unsubscribe: 0 is null, else the subscription it ends
     active |-> {},             \* subscriptions of the element the backend holds active
     opened |-> 0,              \* subscriptions onValue() has opened so far
     setups |-> <<>>,           \* one position per run of _setupDataListener
     globals |-> 0,             \* runs of _initFromGlobal waiting for their import
     calls |-> <<>>,            \* one frame per call of create/read/update/delete
     backendCalls |-> 0,        \* calls made to the backend SDK by create/read/update/delete
     events |-> <<>>,           \* types of the events dispatched, in order
     changed |-> {"path", "autoSync", "orderBy", "limitTo"},
                                \* properties assigned since the last updated()
     isConnected |-> FALSE,     \* the element is in the document
     updating |-> FALSE,        \* the element has been connected once: updates run
     listeners |-> 0,           \* firebase-ready listeners the element added to document
     steps |-> 0]               \* interactions of the page with the element so far

\* firebase-uploadfile: packages/firebase-uploadfile/src/firebase-uploadfile.js
\* sizes are counted in units of 5 MB: the default maxSize is 10 MB
DefaultMaxSize == 2

NoMessageText == <<>>

UploaderConstructed ==
    [maxSize |-> DefaultMaxSize, \* this.maxSize
     multiple |-> FALSE,        \* this.multiple
     autoUpload |-> FALSE,      \* this.autoUpload
     _storage |-> FALSE,        \* this._storage: handle present or not
     _files |-> <<>>,           \* this._files: the pending file list
     _uploading |-> FALSE,      \* this._uploading
     _error |-> NoMessageText,  \* this._error
     _success |-> NoMessageText, \* this._success
     runs |-> <<>>,             \* one frame per run of _uploadAll
     events |-> <<>>,           \* types of the events dispatched, in order
     selections |-> <<>>,       \* the selections and drops handled, with maxSize at that time
     uploaded |-> {},           \* files handed to uploadBytesResumable
     uncaught |-> 0,            \* rejections of _uploadAll nobody handles
     steps |-> 0]               \* interactions of the user and the page so far

\* firebase-wrapper: packages/firebase-wrapper/src/firebase-wrapper.js
WrapperConstructed ==
    [config |-> FALSE,          \* this.config: null, or a configuration object
     sdk |-> TRUE,              \* the page: import('firebase/app') and initializeApp() succeed
     _app |-> FALSE,            \* this._app: handle present or not
     services |-> {},           \* the service handles set: _auth, _database, ...
     _status |-> "pending",     \* this._status
     _errorMessage |-> "",      \* this._errorMessage
     inits |-> <<>>,            \* one position per run of _initializeFirebase
     events |-> <<>>,           \* types of the events dispatched, in order
     changed |-> TRUE,          \* config is in changedProperties of the next updated()
     isConnected |-> FALSE,     \* the element is in the document
     updating |-> FALSE,        \* the element has been connected once: updates run
     steps |-> 0]               \* interactions of the page with the element so far

-----------------------------------------------------------------------------
(* The form element: state after construction and connection *)

Connected ==
    /\ _values = _initializeValues(schema, data)
    /\ _errors = NoErrors
    /\ _loading = FALSE
    /\ _globalError = ""
    /\ _showSuccessMessage = FALSE
    /\ subs = <<>>
    /\ resetEvents = <<>>
    /\ timers = <<>>
    /\ nextKey = 0
    /\ interactions = 0
    /\ changedProperties = {}
    /\ uncaught = 0

\* the page holds the form only: the other elements stay as constructed
FormOnly ==
    /\ crud = CrudConstructed
    /\ uploader = UploaderConstructed
    /\ wrapper = WrapperConstructed

\* the page holds another component: the form stays an idle, empty form
FormIdle ==
    /\ schema = <<>>
    /\ data = NoData
    /\ path = NoPath
    /\ _database = FALSE
    /\ dataKey = NoKey
    /\ showSuccess = TRUE
    /\ resetOnSubmit = FALSE
    /\ Connected

\* path and database handle at connection: no path, no handle yet, or both
Targets == {<<NoPath, TRUE>>, <<"/users", FALSE>>, <<"/users", TRUE>>}

Init ==
    /\ \E form \in Forms : schema = form[1] /\ data = form[2]
    /\ \E target \in Targets : path = target[1] /\ _database = target[2]
    /\ dataKey \in CallerKeys
    /\ showSuccess \in BOOLEAN
    /\ resetOnSubmit \in BOOLEAN
    /\ Connected
    /\ FormOnly

\* the interactions of one behaviour are bounded
Budget == interactions < MaxInteractions

Next ==
    \/ /\ Budget
       /\ \E name \in FieldNames(schema) :
             \E target \in TargetsOf(SchemaField(schema, name)) : HandleInput(name, target)
    \/ HandleSubmit
    \/ \E id \in 1..Len(subs) : ImportResolved(id)
    \/ \E id \in 1..Len(subs) : PersistResolved(id)
    \/ \E id \in 1..Len(subs), message \in PersistenceErrors : PersistRejected(id, message)
    \/ Budget /\ ResetClick
    \/ \E id \in Pending(timers) : TimerFired(id)
    \/ Budget /\ \E key \in CallerKeys : SetDataKey(key)
    \/ FirebaseReady

Spec == Init /\ [][Next]_vars

-----------------------------------------------------------------------------
(* The validation engine on its own: a form of one field "f", whose schema  *)
(* ranges over the combinations of constraints and whose value comes from   *)
(* an existing record or from the user, validated by input events and by    *)
(* submit events without a backend.                                         *)

FieldSchemas ==
    {[Field("f", type, required) EXCEPT
         !.minLength = minLength, !.maxLength = maxLength,
         !.hasMin = hasMin, !.min = IF hasMin THEN 7 ELSE 0,
         !.hasMax = hasMax, !.max = IF hasMax THEN 7 ELSE 0,
         !.pattern = pattern] :
       type \in {"text", "email", "number", "checkbox"}, required \in BOOLEAN,
       minLength \in {0, 4}, maxLength \in {0, 4},
       hasMin \in BOOLEAN, hasMax \in BOOLEAN,
       pattern \in {NoPattern, PatternDigits, PatternUnclosed}}

SampleValues ==
    {EmptyString, Null, Undefined, Bool(FALSE), Bool(TRUE), Num(0), Num(7), Num(12),
     Str(Chars("7")), Str(Chars("Adam")), Str(Chars("a@b.co")), Str(Chars("a@b"))}

\* what a user can enter in the control of a field of any text-like type
AllTargetsOf(field) ==
    CASE field.type = "checkbox" -> {Target("", TRUE), Target("", FALSE)}
      [] field.type \in {"number", "range"} ->
            {Target("", FALSE), Target("0", FALSE), Target("7", FALSE)}
      [] OTHER -> {Target(text, FALSE) : text \in {"", "Ada", "Adam", "a@b.co", "a@b", "7"}}

InitValidate ==
    /\ \E field \in FieldSchemas : schema = <<field>>
    /\ data \in {NoData} \cup {[key \in {"f"} |-> value] : value \in SampleValues}
    /\ path = NoPath
    /\ _database = FALSE
    /\ dataKey = NoKey
    /\ showSuccess = FALSE
    /\ resetOnSubmit = FALSE
    /\ Connected
    /\ FormOnly

NextValidate ==
    \/ Budget /\ \E target \in AllTargetsOf(schema[1]) : HandleInput("f", target)
    \/ HandleSubmit

SpecValidate == InitValidate /\ [][NextValidate]_vars

-----------------------------------------------------------------------------
(* The value store and the error store over the life of a form without a    *)
(* backend: the host replaces schema and data, the user edits, submits and  *)
(* resets.  Between the assignment of a property and the updated() callback *)
(* only synchronous code of the host runs: it can dispatch a submit event,  *)
(* an input event on a rendered control or a click on the reset button.     *)

\* fields with defaults: a text, a checkbox without default, a number
SchemaDefaults ==
    <<[Field("name", "text", FALSE) EXCEPT !.hasDefault = TRUE,
                                           !.default = Str(Chars("Adam"))],
      Field("active", "checkbox", FALSE),
      [Field("age", "number", FALSE) EXCEPT !.hasDefault = TRUE, !.default = Num(0)]>>

RecordActive == [key \in {"active", "age"} |-> IF key = "active" THEN Bool(TRUE) ELSE Null]

StoreSchemas == {SchemaContact, SchemaDefaults}
StoreRecords == {NoData, RecordAda, RecordActive}

InitStore ==
    /\ schema \in StoreSchemas
    /\ data \in StoreRecords
    /\ path = NoPath
    /\ _database = FALSE
    /\ dataKey = NoKey
    /\ showSuccess \in BOOLEAN
    /\ resetOnSubmit = FALSE
    /\ Connected
    /\ FormOnly

StoreBudget == interactions < MaxStoreSteps

\* the controls on the page are those of the last render
Rendered == FieldNames(schema) \cap DOMAIN _values

NextStore ==
    \/ /\ StoreBudget
       /\ \E name \in Rendered :
             \E target \in TargetsOf(SchemaField(schema, name)) : HandleInput(name, target)
    \/ HandleSubmit
    \/ StoreBudget /\ ResetClick
    \/ \E id \in Pending(timers) : TimerFired(id)
    \/ StoreBudget /\ \E sch \in StoreSchemas : SetSchema(sch)
    \/ StoreBudget /\ \E record \in StoreRecords : SetData(record)
    \/ Updated

SpecStore == InitStore /\ [][NextStore]_vars


-----------------------------------------------------------------------------
(* Field groups: the partition of the schema and the form render() builds   *)
(* from it.  A bucket is a group name with the names of its fields.         *)

Bucket(name, fields) == [name |-> name, fields |-> fields]
\* the index of the bucket of a group in the Map, 0 if the Map has none
BucketOf(groups, group) ==
    IF \E i \in 1..Len(groups) : groups[i].name = group
    THEN CHOOSE i \in 1..Len(groups) : groups[i].name = group
    ELSE 0

\* variant: a new bucket is opened whenever the group differs from the last
RECURSIVE GroupRunsFrom(_, _, _)
GroupRunsFrom(groups, sch, i) ==
    IF i > Len(sch) THEN groups
    ELSE IF groups[Len(groups)].name = sch[i].group
    THEN GroupRunsFrom([groups EXCEPT ![Len(groups)].fields = Append(@, sch[i].name)],
                       sch, i + 1)
    ELSE GroupRunsFrom(Append(groups, Bucket(sch[i].group, <<sch[i].name>>)), sch, i + 1)

\* variant: the entry is put at the head of its bucket
RECURSIVE GroupHeadFrom(_, _, _)
GroupHeadFrom(groups, sch, i) ==
    IF i > Len(sch) THEN groups
    ELSE LET b == BucketOf(groups, sch[i].group) IN
         IF b = 0
         THEN GroupHeadFrom(Append(groups, Bucket(sch[i].group, <<sch[i].name>>)), sch, i + 1)
         ELSE GroupHeadFrom([groups EXCEPT ![b].fields = <<sch[i].name>> \o @], sch, i + 1)

\* the forEach of _groupFields from entry i on: the entry is pushed to the
\* bucket of its group, which is created at the end of the Map if missing
RECURSIVE GroupFrom(_, _, _)
GroupFrom(groups, sch, i) ==
    IF i > Len(sch) THEN groups
    ELSE LET b == BucketOf(groups, sch[i].group) IN
         IF b = 0
         THEN GroupFrom(Append(groups, Bucket(sch[i].group, <<sch[i].name>>)), sch, i + 1)
         ELSE GroupFrom([groups EXCEPT ![b].fields = Append(@, sch[i].name)], sch, i + 1)

_groupFieldsByRun(sch) == GroupRunsFrom(<<Bucket("", <<>>)>>, sch, 1)
_groupFieldsAtHead(sch) == GroupHeadFrom(<<Bucket("", <<>>)>>, sch, 1)
\* _groupFields(): the Map starts with the default group ''
_groupFields(sch) == GroupFrom(<<Bucket("", <<>>)>>, sch, 1)

\* what render() puts in the form for one bucket: a fieldset with a legend
\* for a named bucket with fields, else the controls of the fields themselves
Block(fieldset, legend, fields) == [fieldset |-> fieldset, legend |-> legend, fields |-> fields]
RenderGroup(bucket) ==
    IF bucket.name # "" /\ Len(bucket.fields) > 0
    THEN <<Block(TRUE, bucket.name, bucket.fields)>>
    ELSE [j \in 1..Len(bucket.fields) |-> Block(FALSE, "", <<bucket.fields[j]>>)]

RECURSIVE RenderFrom(_, _)
RenderFrom(groups, i) ==
    IF i > Len(groups) THEN <<>>
    ELSE RenderGroup(groups[i]) \o RenderFrom(groups, i + 1)

\* the children of the form element, before the buttons
render == RenderFrom(_groupFields(schema), 1)

\* forms of three fields, each in no group or in one of two groups
GroupNames == {"", "Meta", "Info"}
GroupSchemas ==
    {<<[Field("title", "text", FALSE) EXCEPT !.group = g1],
       [Field("status", "select", FALSE) EXCEPT !.group = g2],
       [Field("id", "text", FALSE) EXCEPT !.group = g3]>> :
        g1 \in GroupNames, g2 \in GroupNames, g3 \in GroupNames}

InitGroups ==
    /\ schema \in GroupSchemas
    /\ data = NoData
    /\ path = NoPath
    /\ _database = FALSE
    /\ dataKey = NoKey
    /\ showSuccess = FALSE
    /\ resetOnSubmit = FALSE
    /\ Connected
    /\ FormOnly

\* the host replaces the schema, the element updates and renders again
NextGroups ==
    \/ StoreBudget /\ \E sch \in GroupSchemas : SetSchema(sch)
    \/ Updated

SpecGroups == InitGroups /\ [][NextGroups]_vars

-----------------------------------------------------------------------------
(* firebase-crud: the data listener with its real-time subscription, and    *)
(* the methods create, read, update and delete.  Every await of the source  *)
(* is a suspension point: the run resumes in a later step.                  *)

MaxCrudSteps == 3      \* interactions with the crud element in one behaviour
MaxSetups == 2         \* runs of _setupDataListener in one behaviour

NoSubscription == 0
NotInitialized == "Database not initialized or path not set"
SdkErrors == {"PERMISSION_DENIED"}
\* what a snapshot holds: nothing (exists() is false), or a list of items
Snapshots == {"null", "items"}
CrudPaths == {"", "/items"}
Operations == {"create", "read", "update", "delete"}

CrudDispatch(c, type) == [c EXCEPT !.events = Append(@, type)]

_handleSnapshot(c, snapshot) ==
    CrudDispatch([c EXCEPT !._loading = FALSE, !._data = snapshot], "data-loaded")

_handleError(c, message) ==
    CrudDispatch([c EXCEPT !._loading = FALSE, !._error = message], "data-error")

_cleanup(c) ==
    IF c._unsubscribe # NoSubscription
    THEN [c EXCEPT !.active = @ \ {c._unsubscribe},
                   !._unsubscribe = NoSubscription,
                   !._syncActive = FALSE]
    ELSE [c EXCEPT !._syncActive = FALSE]

\* _setupDataListener() up to `await import('firebase/database')`
_setupDataListener(c) ==
    LET c1 == _cleanup(c)
    IN  IF ~c1._database \/ c1.path = ""
        THEN c1
        ELSE [c1 EXCEPT !._loading = TRUE, !._error = "",
                        !.setups = Append(@, "import")]

\* `this._database = ...; if (this.path) this._setupDataListener()`
DatabaseFound(c) ==
    LET c1 == [c EXCEPT !._database = TRUE]
    IN  IF c1.path # "" THEN _setupDataListener(c1) ELSE c1

\* the firebase-ready listeners of the element run one after the other
RECURSIVE OnFirebaseReady(_, _)
OnFirebaseReady(c, n) ==
    IF n = 0 THEN c ELSE OnFirebaseReady(DatabaseFound(c), n - 1)

\* variant: the guard sits inside the try block
MethodGuardedInTry(c, op) ==
    IF ~c._database \/ c.path = ""
    THEN _handleError([c EXCEPT !.calls = Append(@, [op |-> op, state |-> "rejected",
                                                     error |-> NotInitialized])],
                      NotInitialized)
    ELSE [c EXCEPT !.calls = Append(@, [op |-> op, state |-> "import", error |-> ""])]

\* create / read / update / delete up to `await import('firebase/database')`,
\* or to the throw of the guard
Method(c, op) ==
    IF ~c._database \/ c.path = ""
    THEN [c EXCEPT !.calls = Append(@, [op |-> op, state |-> "rejected",
                                        error |-> NotInitialized])]
    ELSE [c EXCEPT !.calls = Append(@, [op |-> op, state |-> "import", error |-> ""])]

\* one more interaction of the page or of the backend with the element
CrudStep(c) == [c EXCEPT !.steps = @ + 1]
CrudBudget == crud.steps < MaxCrudSteps
SetupBudget == Len(crud.setups) < MaxSetups

\* connectedCallback(): _findDatabase() finds a wrapper with a database, or
\* starts _initFromGlobal(); it adds one firebase-ready listener to document
CrudConnected(wrapperDatabase) ==
    /\ ~crud.isConnected
    /\ LET c == [CrudStep(crud) EXCEPT !.isConnected = TRUE, !.updating = TRUE,
                                       !.listeners = @ + 1]
       IN  crud' = IF wrapperDatabase
                   THEN DatabaseFound(c)
                   ELSE [c EXCEPT !.globals = @ + 1]
    /\ UNCHANGED <<formState, uploader, wrapper>>

\* _initFromGlobal() after its import: getDatabase() returns the handle of the
\* default app, or throws because there is none
GlobalResolved(found) ==
    /\ crud.globals > 0
    /\ LET c == [crud EXCEPT !.globals = @ - 1]
       IN  crud' = IF found THEN DatabaseFound(c) ELSE c
    /\ UNCHANGED <<formState, uploader, wrapper>>

\* disconnectedCallback()
CrudDisconnected ==
    /\ crud.isConnected
    /\ crud' = _cleanup([CrudStep(crud) EXCEPT !.isConnected = FALSE])
    /\ UNCHANGED <<formState, uploader, wrapper>>

\* a firebase-ready event that carries a database handle reaches document
CrudFirebaseReady ==
    /\ crud.listeners > 0
    /\ crud' = OnFirebaseReady(CrudStep(crud), crud.listeners)
    /\ UNCHANGED <<formState, uploader, wrapper>>

\* the host assigns path or autoSync
CrudSet(name, value) ==
    /\ crud[name] # value
    /\ crud' = [CrudStep(crud) EXCEPT ![name] = value, !.changed = @ \cup {name}]
    /\ UNCHANGED <<formState, uploader, wrapper>>

\* the host assigns another orderBy or limitTo
CrudSetQuery(name) ==
    /\ crud' = [CrudStep(crud) EXCEPT !.changed = @ \cup {name}]
    /\ UNCHANGED <<formState, uploader, wrapper>>

\* updated(changedProperties)
CrudUpdated ==
    /\ crud.updating
    /\ crud.changed # {}
    /\ LET c == [crud EXCEPT !.changed = {}]
       IN  crud' = IF /\ crud.changed \cap {"path", "autoSync", "orderBy", "limitTo"} # {}
                      /\ c._database
                      /\ c.path # ""
                   THEN _setupDataListener(c)
                   ELSE c
    /\ UNCHANGED <<formState, uploader, wrapper>>

\* refresh() up to its await
CrudRefresh ==
    /\ crud' = _setupDataListener(CrudStep(crud))
    /\ UNCHANGED <<formState, uploader, wrapper>>

\* _setupDataListener() after its import: onValue() opens a subscription, or
\* get() is called and awaited
SetupImportResolved(id) ==
    /\ crud.setups[id] = "import"
    /\ crud' = IF crud.autoSync
               THEN LET sub == crud.opened + 1
                    IN  [crud EXCEPT !._unsubscribe = sub, !.active = @ \cup {sub},
                                     !.opened = sub, !.setups[id] = "listening"]
               ELSE [crud EXCEPT !.setups[id] = "get"]
    /\ UNCHANGED <<formState, uploader, wrapper>>

\* _setupDataListener() after get()
SetupGetResolved(id, snapshot) ==
    /\ crud.setups[id] = "get"
    /\ crud' = _handleSnapshot([crud EXCEPT !.setups[id] = "done"], snapshot)
    /\ UNCHANGED <<formState, uploader, wrapper>>

\* the import or get() rejects: the catch block of _setupDataListener()
SetupRejected(id, message) ==
    /\ crud.setups[id] \in {"import", "get"}
    /\ crud' = _handleError([crud EXCEPT !.setups[id] = "failed"], message)
    /\ UNCHANGED <<formState, uploader, wrapper>>

\* the backend delivers a snapshot to an active subscription
SnapshotDelivered(sub, snapshot) ==
    /\ sub \in crud.active
    /\ crud' = [_handleSnapshot(CrudStep(crud), snapshot) EXCEPT !._syncActive = TRUE]
    /\ UNCHANGED <<formState, uploader, wrapper>>

\* the backend cancels an active subscription and calls its error callback
SubscriptionCancelled(sub, message) ==
    /\ sub \in crud.active
    /\ crud' = [_handleError(CrudStep(crud), message) EXCEPT !._syncActive = FALSE,
                                                             !.active = @ \ {sub}]
    /\ UNCHANGED <<formState, uploader, wrapper>>

\* the host calls create(), read(), update() or delete()
Invoke(op) ==
    /\ crud' = Method(CrudStep(crud), op)
    /\ UNCHANGED <<formState, uploader, wrapper>>

\* a method after its import: it calls the backend and awaits
CallImportResolved(id) ==
    /\ crud.calls[id].state = "import"
    /\ crud' = [crud EXCEPT !.calls[id].state = "backend", !.backendCalls = @ + 1]
    /\ UNCHANGED <<formState, uploader, wrapper>>

\* a method after the backend call: read() returns the value, the others
\* dispatch data-updated
CallResolved(id) ==
    /\ crud.calls[id].state = "backend"
    /\ LET c == [crud EXCEPT !.calls[id].state = "resolved"]
       IN  crud' = IF c.calls[id].op = "read" THEN c ELSE CrudDispatch(c, "data-updated")
    /\ UNCHANGED <<formState, uploader, wrapper>>

\* the import or the backend call rejects: the catch block of the method
CallRejected(id, message) ==
    /\ crud.calls[id].state \in {"import", "backend"}
    /\ crud' = _handleError([crud EXCEPT !.calls[id].state = "rejected",
                                         !.calls[id].error = message], message)
    /\ UNCHANGED <<formState, uploader, wrapper>>

\* the element as written in the page: path and auto-sync attributes
InitCrud ==
    /\ FormIdle
    /\ \E p \in CrudPaths, sync \in BOOLEAN :
          crud = [CrudConstructed EXCEPT !.path = p, !.autoSync = sync]
    /\ uploader = UploaderConstructed
    /\ wrapper = WrapperConstructed

NextCrud ==
    \/ CrudBudget /\ \E wrapperDatabase \in BOOLEAN : CrudConnected(wrapperDatabase)
    \/ \E found \in BOOLEAN : GlobalResolved(found)
    \/ CrudBudget /\ CrudDisconnected
    \/ CrudBudget /\ SetupBudget /\ CrudFirebaseReady
    \/ CrudBudget /\ \E p \in CrudPaths : CrudSet("path", p)
    \/ CrudBudget /\ \E sync \in BOOLEAN : CrudSet("autoSync", sync)
    \/ CrudBudget /\ \E name \in {"orderBy", "limitTo"} : CrudSetQuery(name)
    \/ SetupBudget /\ CrudUpdated
    \/ CrudBudget /\ SetupBudget /\ CrudRefresh
    \/ \E id \in 1..Len(crud.setups) : SetupImportResolved(id)
    \/ \E id \in 1..Len(crud.setups), snapshot \in Snapshots : SetupGetResolved(id, snapshot)
    \/ \E id \in 1..Len(crud.setups), message \in SdkErrors : SetupRejected(id, message)
    \/ CrudBudget /\ \E sub \in crud.active, snapshot \in Snapshots :
                        SnapshotDelivered(sub, snapshot)
    \/ CrudBudget /\ \E sub \in crud.active, message \in SdkErrors :
                        SubscriptionCancelled(sub, message)
    \/ CrudBudget /\ \E op \in Operations : Invoke(op)
    \/ \E id \in 1..Len(crud.calls) : CallImportResolved(id)
    \/ \E id \in 1..Len(crud.calls) : CallResolved(id)
    \/ \E id \in 1..Len(crud.calls), message \in SdkErrors : CallRejected(id, message)

SpecCrud == InitCrud /\ [][NextCrud]_vars

-----------------------------------------------------------------------------
(* firebase-uploadfile: the validation of a selection, the pending file     *)
(* list, and the upload of the list file by file.                           *)

MaxUploadSteps == 2    \* interactions with the uploader in one behaviour

\* a File object: its name, its size (in units of 5 MB) and the selection
\* that created the object
File(name, size, from) == [name |-> name, size |-> size, from |-> from]
\* the files a user picks or drops: a.txt (5 MB), b.txt (10 MB) and c.txt
\* (15 MB), alone or two at a time
SampleSizes == [a |-> 1, b |-> 2, c |-> 3]
Picks == {<<"a">>, <<"c">>, <<"a", "c">>, <<"c", "a">>, <<"b", "c">>}
Picked(names, from) == [i \in DOMAIN names |-> File(names[i], SampleSizes[names[i]], from)]
MaxSizes == {1, DefaultMaxSize}
UploadErrors == {<<"storage/unauthorized">>}
UploadComplete == <<"Upload complete!">>

\* `File "${file.name}" exceeds maximum size of ${this._formatSize(this.maxSize)}`
ExceedsMessage(file, maxSize) == <<"File", file.name, "exceeds maximum size of", maxSize>>

UploaderDispatch(u, type) == [u EXCEPT !.events = Append(@, type)]

\* the filter callback of _processFiles over files[i..]: the error names the
\* last file that is too large
RECURSIVE ValidateFiles(_, _, _)
ValidateFiles(u, files, i) ==
    IF i > Len(files) THEN u
    ELSE ValidateFiles(IF files[i].size > u.maxSize
                       THEN [u EXCEPT !._error = ExceedsMessage(files[i], u.maxSize)]
                       ELSE u,
                       files, i + 1)

\* variant: every file passes the filter
ValidFilesAll(u, files) == files

ValidFiles(u, files) == SelectSeq(files, LAMBDA file : ~(file.size > u.maxSize))

\* upload(file) for file i of the run, up to its first await; without a
\* storage handle it rejects and so does _uploadAll
StartUpload(u, id, i) ==
    IF ~u._storage
    THEN [u EXCEPT !.runs[id].pc = "rejected", !.runs[id].i = i, !.uncaught = @ + 1]
    ELSE [u EXCEPT !._uploading = TRUE, !._error = NoMessageText,
                   !.runs[id].pc = "import", !.runs[id].i = i]

\* _uploadAll() from file i of its list on: the next upload, or the end
ContinueUploadAll(u, id, i) ==
    IF i <= Len(u.runs[id].files)
    THEN StartUpload(u, id, i)
    ELSE [u EXCEPT !._files = <<>>, !.runs[id].pc = "done", !.runs[id].i = i]

\* _uploadAll() up to its first await: it walks the array that is the
\* pending list at this moment
_uploadAll(u) ==
    LET id == Len(u.runs) + 1
        u1 == [u EXCEPT !.runs = Append(@, [files |-> u._files, i |-> 1, pc |-> "start"])]
    IN  ContinueUploadAll(u1, id, 1)

_processFiles(u, files) ==
    LET u1 == ValidateFiles([u EXCEPT !._error = NoMessageText,
                                      !._success = NoMessageText], files, 1)
        validFiles == ValidFiles(u, files)
        u2 == [u1 EXCEPT !._files = IF u.multiple THEN @ \o validFiles ELSE validFiles]
    IN  IF u2.autoUpload /\ Len(u2._files) > 0 THEN _uploadAll(u2) ELSE u2

\* the catch block of upload() and the error callback of the upload task
UploadFailed(u, id, message) ==
    UploaderDispatch([u EXCEPT !._uploading = FALSE, !._error = message,
                               !.runs[id].pc = "rejected", !.uncaught = @ + 1],
                     "upload-error")

UploaderStep(u) == [u EXCEPT !.steps = @ + 1]
UploadBudget == uploader.steps < MaxUploadSteps

\* a change event of the file input, or a drop on the container
FilesSelected(names) ==
    /\ LET from == Len(uploader.selections) + 1
           files == Picked(names, from)
           u == [UploaderStep(uploader) EXCEPT
                    !.selections = Append(@, [files |-> files, maxSize |-> uploader.maxSize])]
       IN  uploader' = _processFiles(u, files)
    /\ UNCHANGED <<formState, crud, wrapper>>

\* a click on the "Upload n files" button
UploadClicked ==
    /\ Len(uploader._files) > 0
    /\ ~uploader.autoUpload
    /\ ~uploader._uploading
    /\ uploader' = _uploadAll(UploaderStep(uploader))
    /\ UNCHANGED <<formState, crud, wrapper>>

\* a click on the remove button of a pending file
RemoveClicked(index) ==
    /\ ~uploader._uploading
    /\ uploader' = [UploaderStep(uploader) EXCEPT
                       !._files = [i \in 1..(Len(@) - 1) |->
                                      IF i < index THEN @[i] ELSE @[i + 1]]]
    /\ UNCHANGED <<formState, crud, wrapper>>

\* the host calls clear()
Clear ==
    /\ uploader' = [UploaderStep(uploader) EXCEPT !._files = <<>>,
                                                  !._error = NoMessageText,
                                                  !._success = NoMessageText]
    /\ UNCHANGED <<formState, crud, wrapper>>

\* the host assigns maxSize
SetMaxSize(maxSize) ==
    /\ uploader.maxSize # maxSize
    /\ uploader' = [UploaderStep(uploader) EXCEPT !.maxSize = maxSize]
    /\ UNCHANGED <<formState, crud, wrapper>>

\* a storage handle arrives: from the wrapper, from the global app, or with
\* a firebase-ready event
StorageFound ==
    /\ ~uploader._storage
    /\ uploader' = [uploader EXCEPT !._storage = TRUE]
    /\ UNCHANGED <<formState, crud, wrapper>>

\* upload() after its import: the upload task is created and started
UploadImportResolved(id) ==
    /\ uploader.runs[id].pc = "import"
    /\ uploader' = [uploader EXCEPT
                       !.runs[id].pc = "task",
                       !.uploaded = @ \cup {uploader.runs[id].files[uploader.runs[id].i]}]
    /\ UNCHANGED <<formState, crud, wrapper>>

\* the import rejects, or the upload task fails
UploadRejected(id, message) ==
    /\ uploader.runs[id].pc \in {"import", "task"}
    /\ uploader' = UploadFailed(uploader, id, message)
    /\ UNCHANGED <<formState, crud, wrapper>>

\* the upload task completes: its callback awaits getDownloadURL()
TaskCompleted(id) ==
    /\ uploader.runs[id].pc = "task"
    /\ uploader' = [uploader EXCEPT !.runs[id].pc = "url"]
    /\ UNCHANGED <<formState, crud, wrapper>>

\* the completion callback after getDownloadURL(); upload() resolves and
\* _uploadAll() goes on with the next file
UrlResolved(id) ==
    /\ uploader.runs[id].pc = "url"
    /\ uploader' = ContinueUploadAll(
                       UploaderDispatch([uploader EXCEPT !._uploading = FALSE,
                                                         !._success = UploadComplete],
                                        "upload-complete"),
                       id, uploader.runs[id].i + 1)
    /\ UNCHANGED <<formState, crud, wrapper>>

\* the element as written in the page: max-size, multiple and auto-upload
InitUpload ==
    /\ FormIdle
    /\ crud = CrudConstructed
    /\ \E maxSize \in MaxSizes, multiple \in BOOLEAN, autoUpload \in BOOLEAN :
          uploader = [UploaderConstructed EXCEPT !.maxSize = maxSize,
                                                 !.multiple = multiple,
                                                 !.autoUpload = autoUpload]
    /\ wrapper = WrapperConstructed

NextUpload ==
    \/ UploadBudget /\ \E names \in Picks : FilesSelected(names)
    \/ UploadBudget /\ UploadClicked
    \/ UploadBudget /\ \E index \in 1..Len(uploader._files) : RemoveClicked(index)
    \/ UploadBudget /\ Clear
    \/ UploadBudget /\ \E maxSize \in MaxSizes : SetMaxSize(maxSize)
    \/ StorageFound
    \/ \E id \in 1..Len(uploader.runs) : UploadImportResolved(id)
    \/ \E id \in 1..Len(uploader.runs), message \in UploadErrors : UploadRejected(id, message)
    \/ \E id \in 1..Len(uploader.runs) : TaskCompleted(id)
    \/ \E id \in 1..Len(uploader.runs) : UrlResolved(id)

SpecUpload == InitUpload /\ [][NextUpload]_vars

-----------------------------------------------------------------------------
(* firebase-wrapper: the initialization of the backend SDK.  The emulators  *)
(* property keeps its default, false, so _connectEmulators() is not run.    *)

MaxWrapperSteps == 3   \* interactions of the page with the wrapper in one behaviour

ConfigRequired == "Firebase configuration is required"
SdkFailure == "app/invalid-options"
\* the awaits of _initializeFirebase() and _initializeServices(), in order
StageAfter(stage) ==
    CASE stage = "app" -> "auth"
      [] stage = "auth" -> "database"
      [] stage = "database" -> "firestore"
      [] stage = "firestore" -> "storage"
      [] stage = "storage" -> "done"

WrapperDispatch(w, type) == [w EXCEPT !.events = Append(@, type)]

_setError(w, message) ==
    WrapperDispatch([w EXCEPT !._status = "error", !._errorMessage = message],
                    "firebase-error")

\* `this._status = 'ready'; this._dispatchReadyEvent()`
Finish(w) == WrapperDispatch([w EXCEPT !._status = "ready"], "firebase-ready")

\* _initializeFirebase() up to `await import('firebase/app')`
_initializeFirebase(w) ==
    IF ~w.config
    THEN _setError(w, ConfigRequired)
    ELSE [w EXCEPT !._status = "pending", !.inits = Append(@, "app")]

WrapperStep(w) == [w EXCEPT !.steps = @ + 1]
WrapperBudget == wrapper.steps < MaxWrapperSteps

\* connectedCallback()
WrapperConnected ==
    /\ ~wrapper.isConnected
    /\ LET w == [WrapperStep(wrapper) EXCEPT !.isConnected = TRUE, !.updating = TRUE]
       IN  wrapper' = IF w.config THEN _initializeFirebase(w) ELSE w
    /\ UNCHANGED <<formState, crud, uploader>>

\* the element is removed from the document
WrapperDisconnected ==
    /\ wrapper.isConnected
    /\ wrapper' = [WrapperStep(wrapper) EXCEPT !.isConnected = FALSE]
    /\ UNCHANGED <<formState, crud, uploader>>

\* the host assigns config: an object, or null
SetConfig(present) ==
    /\ wrapper.config \/ present
    /\ wrapper' = [WrapperStep(wrapper) EXCEPT !.config = present, !.changed = TRUE]
    /\ UNCHANGED <<formState, crud, uploader>>

\* updated(changedProperties)
WrapperUpdated ==
    /\ wrapper.updating
    /\ wrapper.changed
    /\ LET w == [wrapper EXCEPT !.changed = FALSE]
       IN  wrapper' = IF w.config /\ ~w._app THEN _initializeFirebase(w) ELSE w
    /\ UNCHANGED <<formState, crud, uploader>>

\* _initializeFirebase() after its import: getApp() or initializeApp(); the
\* import rejects or initializeApp() throws when the SDK is unusable
AppResolved(id) ==
    /\ wrapper.inits[id] = "app"
    /\ wrapper' = IF wrapper.sdk
                  THEN [wrapper EXCEPT !._app = TRUE, !.inits[id] = StageAfter("app")]
                  ELSE _setError([wrapper EXCEPT !.inits[id] = "failed"], SdkFailure)
    /\ UNCHANGED <<formState, crud, uploader>>

\* _initializeServices() after the import of one service: the handle is set,
\* or the failure is logged; after the last one the element is ready
ServiceResolved(id, available) ==
    /\ wrapper.inits[id] \in {"auth", "database", "firestore", "storage"}
    /\ LET stage == wrapper.inits[id]
           w == [wrapper EXCEPT !.inits[id] = StageAfter(stage),
                                !.services = IF available THEN @ \cup {stage} ELSE @]
       IN  wrapper' = IF stage = "storage" THEN Finish(w) ELSE w
    /\ UNCHANGED <<formState, crud, uploader>>

\* the element as written in the page, with or without a config, on a page
\* where the SDK can be loaded and accepts the config, or not
InitWrapper ==
    /\ FormIdle
    /\ crud = CrudConstructed
    /\ uploader = UploaderConstructed
    /\ \E present \in BOOLEAN, usable \in BOOLEAN :
          wrapper = [WrapperConstructed EXCEPT !.config = present, !.sdk = usable]

NextWrapper ==
    \/ WrapperBudget /\ WrapperConnected
    \/ WrapperBudget /\ WrapperDisconnected
    \/ WrapperBudget /\ \E present \in BOOLEAN : SetConfig(present)
    \/ WrapperUpdated
    \/ \E id \in 1..Len(wrapper.inits) : AppResolved(id)
    \/ \E id \in 1..Len(wrapper.inits), available \in BOOLEAN : ServiceResolved(id, available)

SpecWrapper == InitWrapper /\ [][NextWrapper]_vars

-----------------------------------------------------------------------------
(* Properties of the submission coordinator *)

\* a submit event is handled in this step; its frame is the last one
SubmitHandled == Len(subs') = Len(subs) + 1
NewFrame == subs'[Len(subs')]
\* the frame id, which was suspended, moves to `state` in this step
Moves(id, state) == subs[id].state # state /\ subs'[id].state = state
OfType(evs, type) == {i \in 1..Len(evs) : evs[i].type = type}
\* the form-submit event of an accepted frame
Accepted == {id \in 1..Len(subs) : subs[id].state = "accepted"}
SubmitEvent(frame) == frame.events[CHOOSE i \in 1..Len(frame.events) :
                                      frame.events[i].type = "form-submit"]

\* C1: a submit event whose validation leaves the ErrorStore non-empty stops
\* at Rejected(validation): no persistence call, no event, and nothing but the
\* ErrorStore changes
C1_RejectedValidationIsLocal ==
    [][(SubmitHandled /\ DOMAIN _errors' # {}) =>
          /\ NewFrame.state = "rejected-validation"
          /\ NewFrame.calls = <<>>
          /\ NewFrame.events = <<>>
          /\ \A id \in 1..Len(subs) : subs'[id] = subs[id]
          /\ UNCHANGED <<_loading, _globalError, _values, dataKey, _showSuccessMessage,
                         timers, resetEvents, nextKey, config, _database>>]_vars

C1_Witness ==
    \E id \in 1..Len(subs) : subs[id].state = "rejected-validation" /\ DOMAIN _errors # {}

\* C2: at most one submission of a form is between passing validation and its
\* terminal state (suspended on the import or on the persistence call)
C2_NoOverlappingSubmissions ==
    Cardinality({id \in 1..Len(subs) : subs[id].state \in {"importing", "persisting"}}) <= 1

\* C3: without a database handle or without a path, a submit event that passes
\* validation makes no persistence call, dispatches exactly one form-submit
\* with every non-empty field and the timestamp, runs the post-actions, and
\* dispatches no form-error and sets no global error
C3_LocalSubmission ==
    [][(/\ SubmitHandled
        /\ ~(_database /\ path # NoPath)
        /\ uncaught' = uncaught
        /\ DOMAIN _errors' = {}) =>
          LET evs == NewFrame.events IN
          /\ NewFrame.calls = <<>>
          /\ nextKey' = nextKey
          /\ Len(evs) >= 1
          /\ evs[1].type = "form-submit"
          /\ OfType(evs, "form-submit") = {1}
          /\ OfType(evs, "form-error") = {}
          /\ "_updatedAt" \in DOMAIN evs[1].data
          /\ \A name \in DOMAIN _values :
                _values[name] # EmptyString =>
                    name \in DOMAIN evs[1].data /\ evs[1].data[name] = _values[name]
          /\ _globalError' = ""
          /\ showSuccess => Len(subs') \in Pending(timers')
          /\ (showSuccess /\ ~resetOnSubmit) => _showSuccessMessage'
          /\ resetOnSubmit =>
                /\ Len(evs) = 2
                /\ evs[2].type = "form-reset"
                /\ _values' = _initializeValues(schema, data)
          /\ ~resetOnSubmit => Len(evs) = 1 /\ _values' = _values]_vars

C3_Witness ==
    \E id \in 1..Len(subs) :
        /\ subs[id].state = "accepted"
        /\ subs[id].calls = <<>>
        /\ OfType(subs[id].events, "form-submit") # {}

\* C4: when the persistence call fails, _globalError is the failure's message,
\* exactly one form-error with that message is dispatched, no form-submit is,
\* and neither the success banner nor the reset runs
C4_RejectedPersistence ==
    [][\A id \in 1..Len(subs) :
          Moves(id, "rejected-persistence") =>
              \E message \in PersistenceErrors :
                  /\ _globalError' = message
                  /\ subs'[id].events = <<[Event("form-error") EXCEPT !.message = message]>>
                  /\ _showSuccessMessage' = _showSuccessMessage
                  /\ timers' = timers
                  /\ _values' = _values
                  /\ _errors' = _errors
                  /\ resetEvents' = resetEvents]_vars

C4_Witness ==
    \E id \in 1..Len(subs) :
        /\ subs[id].state = "rejected-persistence"
        /\ OfType(subs[id].events, "form-error") # {}

\* C5: no step of a submission other than its acceptance changes the
\* ValueStore or dataKey, and a submission whose persistence failed has made
\* exactly one persistence call
C5_FailureKeepsInput ==
    [][\A id \in 1..Len(subs') :
          (/\ id > Len(subs) \/ subs'[id] # subs[id]
           /\ subs'[id].state \in {"importing", "persisting", "rejected-persistence"}) =>
              /\ _values' = _values
              /\ dataKey' = dataKey
              /\ subs'[id].state = "rejected-persistence" => Len(subs'[id].calls) = 1]_vars

C5_Witness ==
    \E id \in 1..Len(subs) :
        /\ subs[id].state = "rejected-persistence"
        /\ Len(subs[id].calls) = 1
        /\ \E name \in DOMAIN _values : _values[name] # EmptyString

\* C6: the payload a submission builds has a field's key iff the field's value
\* is not '' or the field is required, each with the ValueStore's value, and
\* the form-submit event carries these fields unchanged
C6_PayloadFields ==
    [][/\ (SubmitHandled /\ NewFrame.state \in {"importing", "accepted"}) =>
            \A name \in DOMAIN _values :
               /\ name \in DOMAIN NewFrame.submitData <=>
                     (_values[name] # EmptyString \/ SchemaField(schema, name).required)
               /\ name \in DOMAIN NewFrame.submitData =>
                     NewFrame.submitData[name] = _values[name]
       /\ \A id \in 1..Len(subs) :
             Moves(id, "accepted") =>
                 LET sent == SubmitEvent(subs'[id]).data IN
                 \A name \in FieldNames(schema) :
                    /\ name \in DOMAIN sent <=> name \in DOMAIN subs[id].submitData
                    /\ name \in DOMAIN sent => sent[name] = subs[id].submitData[name]
       /\ (SubmitHandled /\ NewFrame.state = "accepted") =>
             SubmitEvent(NewFrame).data = NewFrame.submitData]_vars

C6_Witness ==
    \E id \in Accepted :
        LET sent == SubmitEvent(subs[id]).data IN
        /\ "active" \in DOMAIN sent
        /\ sent["active"] = Bool(FALSE)
        /\ "age" \in DOMAIN sent
        /\ sent["age"] = Num(0)
        /\ "nick" \notin DOMAIN sent

\* C7 as claimed: an accepted payload has _updatedAt, and has _createdAt
\* exactly when the submission started without a dataKey
C7_CreatedAtIffStartedWithoutKey ==
    \A id \in Accepted :
        LET sent == SubmitEvent(subs[id]).data IN
        /\ "_updatedAt" \in DOMAIN sent
        /\ "_createdAt" \in DOMAIN sent <=> subs[id].startKey = NoKey

\* C7 as amended: an accepted payload has _updatedAt, and has _createdAt
\* exactly when the submission created a record with set(); never when it
\* made an update() or no persistence call
C7_CreatedAtIffRecordCreated ==
    \A id \in Accepted :
        LET sent == SubmitEvent(subs[id]).data IN
        /\ "_updatedAt" \in DOMAIN sent
        /\ "_createdAt" \in DOMAIN sent <=>
              \E i \in 1..Len(subs[id].calls) : subs[id].calls[i].op = "set"

C7_Witness ==
    /\ \E id \in Accepted : "_createdAt" \in DOMAIN SubmitEvent(subs[id]).data
    /\ \E id \in Accepted : subs[id].calls # <<>>
                            /\ "_createdAt" \notin DOMAIN SubmitEvent(subs[id]).data

\* C8: an accepted submission that persisted made one call under path: a
\* set() of a new record if it started without a dataKey, an update() at
\* path/dataKey if it started with one; the event's key is the key written
C8_EventKeyIsKeyWritten ==
    \A id \in Accepted :
        subs[id].calls # <<>> =>
            LET call == subs[id].calls[1] IN
            /\ Len(subs[id].calls) = 1
            /\ call.path = path
            /\ subs[id].startKey = NoKey => call.op = "set"
            /\ subs[id].startKey # NoKey =>
                  call.op = "update" /\ call.key = subs[id].startKey
            /\ SubmitEvent(subs[id]).key = call.key
            /\ SubmitEvent(subs[id]).path = path


-----------------------------------------------------------------------------
(* Properties of the validation engine, on the one-field form *)

\* every step of the one-field form validates "f" with the value it leaves in
\* the ValueStore; the step threw if an exception escaped its handler
TheField == schema[1]
Validated == _values'["f"]
Threw == uncaught' # uncaught
Empty(v) == v = EmptyString \/ v = Null \/ v = Undefined

\* the seven rules in their fixed order: which ones the value violates ("non-
\* empty" in the email and pattern rules is the truthiness test of the code)
Violations(field, v) ==
    <<field.required /\ Empty(v),
      field.type = "email" /\ Truthy(v) /\ ~_isValidEmail(JsToString(v)),
      field.minLength # 0 /\ LengthLess(v, field.minLength),
      field.maxLength # 0 /\ LengthGreater(v, field.maxLength),
      field.hasMin /\ JsLess(v, field.min),
      field.hasMax /\ JsGreater(v, field.max),
      field.pattern # NoPattern /\ Truthy(v) /\ ~RegExpTest(field.pattern, JsToString(v))>>

Messages(field) ==
    <<MsgRequired, MsgEmail, MsgMinLength(field.minLength), MsgMaxLength(field.maxLength),
      MsgMin(field.min), MsgMax(field.max), MsgPattern>>

FirstViolated(field, v) ==
    LET violated == {i \in 1..7 : Violations(field, v)[i]} IN
    IF violated = {} THEN NoMessage
    ELSE Messages(field)[CHOOSE i \in violated : \A j \in violated : i <= j]

\* C9: a validation that runs to its end leaves at most one message for the
\* field, the message of the first violated rule in the order required, email,
\* minimum length, maximum length, minimum, maximum, pattern; and no entry
\* when no rule is violated
C9_FirstViolatedRuleWins ==
    [][~Threw =>
          LET first == FirstViolated(TheField, Validated) IN
          /\ DOMAIN _errors' \subseteq {"f"}
          /\ first = NoMessage => "f" \notin DOMAIN _errors'
          /\ first # NoMessage => "f" \in DOMAIN _errors' /\ _errors'["f"] = first]_vars

\* a value that violates the email rule and a length rule is reported as an
\* invalid email
C9_Witness ==
    /\ interactions + Len(subs) > 0
    /\ TheField.type = "email"
    /\ ~TheField.required
    /\ LengthLess(_values["f"], TheField.minLength)
    /\ "f" \in DOMAIN _errors
    /\ _errors["f"] = MsgEmail

\* the value satisfies each constraint the field declares: an email shape, a
\* length within the bounds, a number within the bounds, a match of the pattern
Satisfies(field, v) ==
    /\ field.type = "email" => v.k = "string" /\ _isValidEmail(v.s)
    /\ field.minLength # 0 => v.k = "string" /\ Len(v.s) >= field.minLength
    /\ field.maxLength # 0 => v.k = "string" /\ Len(v.s) <= field.maxLength
    /\ field.hasMin => v.k = "number" /\ v.n >= field.min
    /\ field.hasMax => v.k = "number" /\ v.n <= field.max
    /\ field.pattern # NoPattern =>
          RegExpCompiles(field.pattern) /\ RegExpTest(field.pattern, JsToString(v))

\* C10: on a required field, the values '', null and undefined are reported
\* as 'This field is required', and a non-empty value that satisfies the
\* field's other constraints is reported as no violation
C10_RequiredField ==
    [][TheField.required =>
          /\ Empty(Validated) =>
                "f" \in DOMAIN _errors' /\ _errors'["f"] = MsgRequired /\ ~Threw
          /\ (~Empty(Validated) /\ Satisfies(TheField, Validated)) =>
                "f" \notin DOMAIN _errors' /\ ~Threw]_vars

\* a required field with a minimum length: the record's null was rejected by
\* a first submit event, the value typed afterwards was accepted by a second
C10_Witness ==
    /\ TheField.required
    /\ TheField.minLength # 0
    /\ Get(data, "f") = Null
    /\ Len(subs) = 2
    /\ subs[1].state = "rejected-validation"
    /\ subs[2].state = "accepted"
    /\ ~Empty(_values["f"])
    /\ DOMAIN _errors = {}


\* C11: an input event on a number field stores '' for a blank control and
\* the number for a non-blank one; on a required number field the blank input
\* is reported as 'This field is required' and the input 0 is not
C11_BlankNumberIsEmptyString ==
    [][\A target \in AllTargetsOf(TheField) :
          (TheField.type \in {"number", "range"} /\ HandleInput("f", target)) =>
              /\ target.value = <<>> =>
                    /\ Validated = EmptyString
                    /\ TheField.required =>
                          "f" \in DOMAIN _errors' /\ _errors'["f"] = MsgRequired
              /\ target.value = <<"0">> =>
                    /\ Validated = Num(0)
                    /\ TheField.required /\ ~Threw =>
                          ~("f" \in DOMAIN _errors' /\ _errors'["f"] = MsgRequired)
              /\ target.value = <<"7">> => Validated = Num(7)]_vars

\* the user has typed 0 in a required number field: it is stored as the
\* number 0 and the field has no message
C11_Witness ==
    /\ TheField.type = "number"
    /\ TheField.required
    /\ interactions = 1
    /\ _values["f"] = Num(0)
    /\ "f" \notin DOMAIN _errors


-----------------------------------------------------------------------------
(* Properties of the error store and the value store *)

\* the fields of the current schema whose current value violates a rule
Violating ==
    {name \in FieldNames(schema) :
        FirstViolated(SchemaField(schema, name), Get(_values, name)) # NoMessage}

\* C12: after a whole-form validation that ran to its end the ErrorStore has
\* an entry for exactly the fields of the schema whose value violates a rule,
\* and the submission goes on iff the ErrorStore is empty
C12_WholeFormValidation ==
    [][(SubmitHandled /\ NewFrame.state # "threw") =>
          /\ NewFrame.state = "rejected-validation" <=> Violating # {}
          /\ NewFrame.state = "rejected-validation" => DOMAIN _errors' = Violating]_vars


\* C13: in every reachable state a field is absent from the ErrorStore
\* exactly when its current value is valid, so isValid is true iff every
\* field of the schema passes validation
C13_ErrorAbsentIffValid ==
    /\ \A name \in FieldNames(schema) : name \notin DOMAIN _errors <=> name \notin Violating
    /\ isValid <=> Violating = {}


\* the store holds, for each field of the schema and for nothing else, the
\* record's value, else the field's default, else false for a checkbox, else ''
StoreBuiltFrom(values, sch, record) ==
    /\ DOMAIN values = FieldNames(sch)
    /\ \A i \in 1..Len(sch) :
          values[sch[i].name] =
              IF sch[i].name \in DOMAIN record THEN record[sch[i].name]
              ELSE IF sch[i].hasDefault THEN sch[i].default
              ELSE IF sch[i].type = "checkbox" THEN Bool(FALSE)
              ELSE EmptyString

\* the state after connection; the steps that initialize the store again
Fresh == interactions = 0 /\ subs = <<>> /\ timers = <<>>
UpdatedRan == changedProperties # {} /\ changedProperties' = {}
ResetClicked == Len(resetEvents') = Len(resetEvents) + 1

InputHandled ==
    \E name \in Rendered :
        \E target \in TargetsOf(SchemaField(schema, name)) : HandleInput(name, target)

\* C15: a replacement of schema or data rebuilds the ValueStore from the new
\* schema and record and empties the ErrorStore, and no submit or input event
\* is handled on a ValueStore built for the previous schema
C15_ReplacementRebuildsStore ==
    [][/\ UpdatedRan => StoreBuiltFrom(_values', schema, data) /\ _errors' = NoErrors
       /\ (SubmitHandled \/ InputHandled) => DOMAIN _values = FieldNames(schema)]_vars

\* C16: a reset puts the ValueStore back to its initialization state, empties
\* the ErrorStore, clears the banner and the global error, dispatches one
\* form-reset event and leaves schema, data, path and dataKey unchanged
C16_ResetEffect ==
    [][ResetClicked =>
          /\ StoreBuiltFrom(_values', schema, data)
          /\ _errors' = NoErrors
          /\ ~_showSuccessMessage'
          /\ _globalError' = ""
          /\ resetEvents' = Append(resetEvents, Event("form-reset"))
          /\ \A id \in 1..Len(subs) : subs'[id].events = subs[id].events
          /\ UNCHANGED <<schema, data, path, dataKey>>]_vars

\* the banner of an accepted submission, whose timer is still pending, has
\* been cleared by a click on the reset button
C16_Witness ==
    /\ Len(resetEvents) = 1
    /\ Len(subs) = 1
    /\ subs[1].state = "accepted"
    /\ timers = <<1>>
    /\ ~_showSuccessMessage
    /\ interactions = 2
    /\ changedProperties = {}
    /\ StoreBuiltFrom(_values, schema, data)

\* C17: in every reachable state, two resets in a row leave the ValueStore
\* and the ErrorStore that one reset leaves, and these are the initialization
\* of the schema and the record with no error
C17_ResetIdempotent ==
    LET once == _handleReset(Local(<<>>))
        twice == _handleReset(once)
    IN  /\ twice.values = once.values
        /\ twice.errors = once.errors
        /\ StoreBuiltFrom(once.values, schema, data)
        /\ once.errors = NoErrors

\* the reset button has been clicked twice on a form that had been edited
\* into an error
C17_Witness ==
    /\ Len(resetEvents) = 2
    /\ interactions = 3
    /\ uncaught = 0
    /\ subs = <<>>
    /\ changedProperties = {}
    /\ data = RecordAda
    /\ schema = SchemaContact
    /\ _errors = NoErrors
    /\ StoreBuiltFrom(_values, schema, data)


-----------------------------------------------------------------------------
(* Properties of the group partitioner *)

Declared == [i \in 1..Len(schema) |-> schema[i].name]
\* the names of the fields declared with the group, in declaration order
DeclaredIn(group) ==
    LET InGroup(field) == field.group = group
        members == SelectSeq(schema, InGroup)
    IN  [j \in 1..Len(members) |-> members[j].name]
FirstSeen(group) == CHOOSE i \in 1..Len(schema) :
                        schema[i].group = group /\ \A j \in 1..(i - 1) : schema[j].group # group

\* C18: every field is in exactly one bucket, the bucket of its group, in
\* declaration order; the unnamed bucket comes first and the named buckets
\* follow in first-seen order; render() shows the fields of the unnamed
\* bucket ungrouped and each named bucket as one fieldset titled with its name
C18_GroupPartition ==
    LET groups == _groupFields(schema)
        named == 2..Len(groups)
        loose == groups[1].fields
    IN  /\ groups[1].name = ""
        /\ \A i \in 1..Len(groups) : groups[i].fields = DeclaredIn(groups[i].name)
        /\ \A i \in named : groups[i].name # "" /\ groups[i].fields # <<>>
        /\ \A i \in named, j \in named :
              i < j => FirstSeen(groups[i].name) < FirstSeen(groups[j].name)
        /\ \A f \in 1..Len(schema) : \E i \in 1..Len(groups) : groups[i].name = schema[f].group
        /\ Len(render) = Len(loose) + Len(groups) - 1
        /\ \A j \in 1..Len(loose) : render[j] = Block(FALSE, "", <<loose[j]>>)
        /\ \A i \in named :
              render[Len(loose) + i - 1] = Block(TRUE, groups[i].name, groups[i].fields)

\* a rendered form whose two groups are declared interleaved with each other
C18_Witness ==
    /\ interactions > 0
    /\ changedProperties = {}
    /\ schema[1].group = "Meta"
    /\ schema[2].group = "Info"
    /\ schema[3].group = "Meta"
    /\ render = <<Block(TRUE, "Meta", <<"title", "id">>), Block(TRUE, "Info", <<"status">>)>>

RECURSIVE FlattenFrom(_, _)
FlattenFrom(groups, i) ==
    IF i > Len(groups) THEN <<>> ELSE groups[i].fields \o FlattenFrom(groups, i + 1)
\* the buckets of the partition, flattened in their output order
Flattened == FlattenFrom(_groupFields(schema), 1)
Position(names, name) == CHOOSE i \in 1..Len(names) : names[i] = name

\* C19 as stated: the flattened buckets are the declaration order
C19_FlattenIsDeclarationOrder == Flattened = Declared

\* the schema declares its ungrouped fields first and the fields of each
\* group next to each other
DeclaredByGroup ==
    \A i \in 1..Len(schema), j \in 1..Len(schema) :
        i < j =>
            /\ schema[j].group = "" => schema[i].group = ""
            /\ schema[i].group = schema[j].group =>
                  \A k \in i..j : schema[k].group = schema[i].group

\* C19, amended: the flattened buckets hold every field of the schema once,
\* two fields of one bucket in their declaration order; they are the
\* declaration order iff the schema declares the ungrouped fields first and
\* the fields of each group next to each other
C19_FlattenIsStablePermutation ==
    /\ Len(Flattened) = Len(Declared)
    /\ \A i \in 1..Len(Declared) : \E j \in 1..Len(Flattened) : Flattened[j] = Declared[i]
    /\ \A i \in 1..Len(schema), j \in 1..Len(schema) :
          (i < j /\ schema[i].group = schema[j].group) =>
              Position(Flattened, Declared[i]) < Position(Flattened, Declared[j])
    /\ Flattened = Declared <=> DeclaredByGroup

\* a rendered form whose ungrouped field is declared between two fields of
\* one group: the partition lists it first
C19_Witness ==
    /\ interactions > 0
    /\ changedProperties = {}
    /\ schema[1].group = "Meta"
    /\ schema[2].group = ""
    /\ schema[3].group = "Meta"
    /\ Flattened = <<"status", "title", "id">>


-----------------------------------------------------------------------------
(* Properties of the post-actions *)

\* the submission id reaches Accepted in this step
BecomesAccepted(id) ==
    /\ subs'[id].state = "accepted"
    /\ id > Len(subs) \/ subs[id].state # "accepted"

\* C20: with showSuccess, the banner flag is true when the handler of an
\* accepted submission has finished, with the dismissal timer of that
\* submission pending; the timer switches the flag off
C20_AcceptedShowsBanner ==
    [][/\ \A id \in 1..Len(subs') :
             (showSuccess /\ BecomesAccepted(id)) => _showSuccessMessage' /\ id \in Pending(timers')
       /\ \A id \in Pending(timers) :
             id \notin Pending(timers') => ~_showSuccessMessage']_vars


\* the submission id reaches the state in this step
Reaches(id, state) ==
    /\ subs'[id].state = state
    /\ id > Len(subs) \/ subs[id].state # state
EventTypes(evs) == [i \in 1..Len(evs) |-> evs[i].type]

\* C21: with resetOnSubmit an accepted submission dispatches form-submit with
\* the values of before the reset and then form-reset, and leaves the stores
\* re-initialized; a rejected submission performs no reset
C21_ResetAfterSubmit ==
    [][\A id \in 1..Len(subs') :
          /\ (resetOnSubmit /\ Reaches(id, "accepted")) =>
                LET evs == subs'[id].events IN
                /\ EventTypes(evs) = <<"form-submit", "form-reset">>
                /\ StoreBuiltFrom(_values', schema, data)
                /\ _errors' = NoErrors
                /\ id > Len(subs) =>
                      \A name \in DOMAIN _values :
                          _values[name] # EmptyString =>
                              name \in DOMAIN evs[1].data /\ evs[1].data[name] = _values[name]
                /\ id <= Len(subs) => evs[1].data = subs[id].submitData
          /\ (Reaches(id, "rejected-validation") \/ Reaches(id, "rejected-persistence")) =>
                /\ OfType(subs'[id].events, "form-reset") = {}
                /\ resetEvents' = resetEvents
                /\ _values' = _values]_vars

\* an accepted submission has announced a value the user typed and has then
\* put the store back to its initialization
C21_Witness ==
    /\ resetOnSubmit
    /\ interactions = 1
    /\ Len(subs) = 1
    /\ subs[1].state = "accepted"
    /\ EventTypes(subs[1].events) = <<"form-submit", "form-reset">>
    /\ \E name \in DOMAIN _values :
          /\ name \in DOMAIN subs[1].events[1].data
          /\ subs[1].events[1].data[name] # _values[name]
    /\ StoreBuiltFrom(_values, schema, data)


\* C22: validation never raises an exception: no input event and no submit
\* event ends in an uncaught error
C22_ValidationNeverThrows == uncaught = 0

\* C23: the global error left by a failed persistence is dismissed by the
\* next submit event that is handled, whatever its outcome
C23_NextSubmitDismissesError ==
    [][(SubmitHandled /\ _globalError \in PersistenceErrors) =>
          _globalError' # _globalError]_vars


\* a reset is performed in this step: by a click on the reset button or by
\* the reset-on-submit post-action of a submission
ResetPerformed ==
    \/ ResetClicked
    \/ \E id \in 1..Len(subs') :
          Cardinality(OfType(subs'[id].events, "form-reset")) >
              IF id <= Len(subs) THEN Cardinality(OfType(subs[id].events, "form-reset")) ELSE 0
InFlight(id) == subs[id].state \in {"importing", "persisting"}

\* C24: a reset performed while a submission is in flight leaves that
\* submission as it is, with its persistence call and its payload; the call
\* can still resolve or reject, and the submission, once accepted, dispatches
\* form-submit with the payload it had built
C24_ResetLeavesSubmissionInFlight ==
    /\ [][ResetPerformed =>
             \A id \in 1..Len(subs) :
                 (InFlight(id) /\ subs'[id].state = subs[id].state) => subs'[id] = subs[id]]_vars
    /\ [][\A id \in 1..Len(subs) :
             (InFlight(id) /\ Reaches(id, "accepted")) =>
                 /\ subs'[id].calls = subs[id].calls
                 /\ Cardinality(OfType(subs'[id].events, "form-submit")) = 1
                 /\ SubmitEvent(subs'[id]).data = subs[id].submitData]_vars
    /\ [](\A id \in 1..Len(subs) :
             subs[id].state = "persisting" =>
                 /\ ENABLED PersistResolved(id)
                 /\ \A message \in PersistenceErrors : ENABLED PersistRejected(id, message))

\* two submissions were in flight together: the first was accepted and reset
\* the form while the call of the second was pending (the second made a set(),
\* so the first had not assigned dataKey when the second made its call, and
\* dataKey is the key of the second, so the second was accepted last)
C24_Witness ==
    /\ resetOnSubmit
    /\ interactions = 0
    /\ Len(subs) = 2
    /\ subs[1].state = "accepted"
    /\ subs[2].state = "accepted"
    /\ EventTypes(subs[1].events) = <<"form-submit", "form-reset">>
    /\ Len(subs[2].calls) = 1
    /\ subs[2].calls[1].op = "set"
    /\ dataKey = subs[2].calls[1].key
    /\ SubmitEvent(subs[2]).data = subs[2].calls[1].data


\* the accepted submissions that created the record whose key is dataKey
CreatedCurrentRecord ==
    {j \in Accepted : /\ subs[j].calls # <<>>
                      /\ subs[j].calls[1].op = "set"
                      /\ subs[j].calls[1].key = dataKey}

\* C27: a submission that creates a record leaves the record's key in
\* dataKey, a reset does not clear it, and while dataKey is the key of a
\* record a submission created, every submission accepted later has updated
\* that record and has created none
C27_CreatedKeyIsKept ==
    [][/\ \A id \in 1..Len(subs) :
             (Reaches(id, "accepted") /\ subs[id].calls # <<>> /\ subs[id].calls[1].op = "set")
                 => dataKey' = subs[id].calls[1].key
       /\ ResetClicked => dataKey' = dataKey
       /\ \A id \in 1..Len(subs') :
             (Reaches(id, "accepted") /\ CreatedCurrentRecord \ {id} # {}) =>
                 /\ Len(subs'[id].calls) = 1
                 /\ subs'[id].calls[1].op = "update"
                 /\ subs'[id].calls[1].key = dataKey
                 /\ dataKey' = dataKey]_vars

\* C29: the banner of an accepted submission is not hidden by the timer of an
\* earlier submission: while a later timer is pending and the banner is
\* shown, the timer that fires leaves it shown
C29_BannerOutlivesEarlierTimer ==
    [][(Len(timers) >= 2 /\ timers' = Tail(timers) /\ _showSuccessMessage) =>
          _showSuccessMessage']_vars

-----------------------------------------------------------------------------
(* Properties of firebase-crud *)

\* a method is called in this step; its frame is the last one
Invoked == Len(crud'.calls) = Len(crud.calls) + 1
NewCall == crud'.calls[Len(crud'.calls)]
\* no database handle is set or path is empty
Unusable == ~crud._database \/ crud.path = ""

\* C25: create, read, update and delete called while no database handle is set
\* or path is empty reject with 'Database not initialized or path not set'
\* without a backend call, then or later, dispatch no event and leave data,
\* loading and error as they were
C25_UninitializedCallRejects ==
    [][/\ (Invoked /\ Unusable) =>
             /\ NewCall.state = "rejected"
             /\ NewCall.error = NotInitialized
             /\ crud'.backendCalls = crud.backendCalls
             /\ crud'.events = crud.events
             /\ crud'._data = crud._data
             /\ crud'._loading = crud._loading
             /\ crud'._error = crud._error
       /\ \A id \in 1..Len(crud.calls) :
             crud.calls[id].error = NotInitialized => crud'.calls[id] = crud.calls[id]]_vars

\* create, read and delete have been called on an element without a database
\* handle or without a path: the three calls were rejected by the guard and
\* nothing else has happened to the element
C25_Witness ==
    /\ Len(crud.calls) = 3
    /\ \A id \in 1..3 : crud.calls[id].error = NotInitialized
    /\ crud.calls[1].op = "create" /\ crud.calls[2].op = "read"
    /\ crud.calls[3].op = "delete"
    /\ crud.events = <<>>
    /\ crud._error = ""

\* C28: the element never holds more than one active real-time subscription,
\* and while it is not connected it holds none and isSyncing is false
C28_OneSubscription ==
    /\ Cardinality(crud.active) <= 1
    /\ ~crud.isConnected => crud.active = {} /\ ~crud._syncActive

-----------------------------------------------------------------------------
(* Properties of firebase-uploadfile *)

\* a selection or a drop is handled in this step
Selected == Len(uploader'.selections) = Len(uploader.selections) + 1
Selection == uploader'.selections[Len(uploader'.selections)]
Elements(files) == {files[i] : i \in DOMAIN files}
TooLarge(sel) == {file \in Elements(sel.files) : file.size > sel.maxSize}
\* maxSize at the time the file was selected
LimitOf(file) == uploader.selections[file.from].maxSize

\* C26: of a selection, the files larger than maxSize are not in the pending
\* list after the handler, the others are, and when a file was rejected the
\* error names a rejected file; every file in the pending list or handed to
\* the backend had a size no greater than maxSize when it was selected
C26_OversizeFileRejected ==
    /\ [][Selected =>
             /\ Elements(uploader'._files) \cap TooLarge(Selection) = {}
             /\ Elements(Selection.files) \ TooLarge(Selection) \subseteq
                    Elements(uploader'._files)
             /\ TooLarge(Selection) # {} =>
                    \E file \in TooLarge(Selection) :
                       uploader'._error = ExceedsMessage(file, Selection.maxSize)]_vars
    /\ [](\A file \in Elements(uploader._files) \cup uploader.uploaded :
             file.size <= LimitOf(file))

-----------------------------------------------------------------------------
(* Properties of firebase-wrapper *)

Count(events, type) == Cardinality({i \in DOMAIN events : events[i] = type})
isReady == wrapper._status = "ready"
Failed == \E id \in 1..Len(wrapper.inits) : wrapper.inits[id] = "failed"

\* C30: _initializeFirebase runs at most once and firebase-ready is dispatched
\* at most once; a failed initialization has dispatched firebase-error and no
\* firebase-ready is dispatched; isReady is true exactly when firebase-ready
\* has been dispatched
C30_InitializedOnce ==
    /\ Len(wrapper.inits) <= 1
    /\ Count(wrapper.events, "firebase-ready") <= 1
    /\ Failed => /\ Count(wrapper.events, "firebase-error") >= 1
                 /\ Count(wrapper.events, "firebase-ready") = 0
    /\ isReady <=> Count(wrapper.events, "firebase-ready") >= 1
====
